---------------------------- MODULE Spec2Model ----------------------------
(***************************************************************************)
(* chordcraft-core: fingering notation, instrument/capo model, fingering   *)
(* generation and progression optimisation as state machines over the      *)
(* library's pure operations.                                               *)
(*                                                                         *)
(* Values.  A StringState is an integer: Muted = -1, Fretted(n) = n >= 0.  *)
(* A Fingering is the sequence of its string states (bass to treble).      *)
(* A PitchClass is its semitone 0..11, a Note a record [pitch, octave].    *)
(* A text is a sequence of one-character strings.                          *)
(***************************************************************************)
EXTENDS Integers, Sequences, FiniteSets, TLC

VARIABLES
    pc,          \* position of the calling program
    text,        \* SpecParse: the notation string handed to Fingering::parse
    parsed,      \* SpecParse: the Result<Fingering> of Fingering::parse
    shown,       \* SpecParse: the Display output of the parsed fingering
    inst,        \* the instrument value the caller holds
    capoFret,    \* SpecCapo: the argument of with_capo
    capoResult,  \* SpecCapo: the Result<CapoedInstrument> of with_capo
    chord,       \* SpecGen: the chord handed to generate_fingerings
    opts,        \* SpecGen: the GeneratorOptions
    result1,     \* SpecGen: Vec<ScoredFingering> of the first invocation
    result2,     \* SpecGen: Vec<ScoredFingering> of the second invocation
    names,       \* SpecProg: the chord names handed to generate_progression
    popts,       \* SpecProg: the ProgressionOptions
    sequences,   \* SpecProg: the Vec<ProgressionSequence> returned
    generated,   \* SpecProg: the candidate lists generate_progression built
    given,       \* SpecScore: the fingerings handed to the scoring functions
    outcome      \* SpecScore: what the scoring functions returned

vars == <<pc, text, parsed, shown, inst, capoFret, capoResult,
          chord, opts, result1, result2, names, popts, sequences, generated,
          given, outcome>>

Idle == "idle"

----------------------------------------------------------------------------
(* Small helpers on sequences and integers.                                *)

Muted == -1

None == -1

U8Max == 255

Abs(n) == IF n < 0 THEN -n ELSE n

Min2(a, b) == IF a < b THEN a ELSE b

Max2(a, b) == IF a > b THEN a ELSE b

SetMin(S) == CHOOSE m \in S : \A n \in S : m <= n

SetMax(S) == CHOOSE m \in S : \A n \in S : m >= n

Range(s) == {s[i] : i \in 1..Len(s)}

RECURSIVE SumSeq(_)
SumSeq(s) == IF s = <<>> THEN 0 ELSE Head(s) + SumSeq(Tail(s))

\* All sequences over S of length at most n.
SeqsUpTo(S, n) == UNION {[1..k -> S] : k \in 0..n}

RECURSIVE Perms(_)
\* All orders in which the elements of the finite set S can be visited.
Perms(S) ==
    IF S = {} THEN {<<>>}
    ELSE UNION {{<<x>> \o p : p \in Perms(S \ {x})} : x \in S}

----------------------------------------------------------------------------
(* fingering.rs: StringState, Fingering::parse, Display.                   *)

is_played(s) == s # Muted

DigitChars == <<"0", "1", "2", "3", "4", "5", "6", "7", "8", "9">>

IsDigit(c) == \E d \in 1..10 : DigitChars[d] = c

DigitValue(c) == (CHOOSE d \in 1..10 : DigitChars[d] = c) - 1

\* str::trim: strip the whitespace at both ends.
RECURSIVE trim_start(_)
trim_start(s) ==
    IF s # <<>> /\ Head(s) = " " THEN trim_start(Tail(s)) ELSE s

RECURSIVE trim_end(_)
trim_end(s) ==
    IF s # <<>> /\ s[Len(s)] = " " THEN trim_end(SubSeq(s, 1, Len(s) - 1)) ELSE s

trim(s) == trim_end(trim_start(s))

RECURSIVE digits_value(_, _)
\* The value of a string of decimal digits, accumulated left to right.
digits_value(ds, acc) ==
    IF ds = <<>> THEN acc
    ELSE digits_value(Tail(ds), acc * 10 + DigitValue(Head(ds)))

\* num_str.parse::<u8>(): an optional '+' sign, then one or more decimal
\* digits, value at most u8::MAX; None for anything else.
parse_u8(num) ==
    LET ds == IF num # <<>> /\ Head(num) = "+" THEN Tail(num) ELSE num
    IN  IF ds = <<>> \/ \E i \in 1..Len(ds) : ~IsDigit(ds[i]) THEN None
        ELSE IF digits_value(ds, 0) > U8Max THEN None
        ELSE digits_value(ds, 0)

ParseOk(strings) == [ok |-> TRUE, strings |-> strings, err |-> "none"]

\* Err(ChordCraftError::InvalidFingering(msg)); msg is kept as its kind.
ParseErr(msg) == [ok |-> FALSE, strings |-> <<>>, err |-> msg]

\* Index of the first ')' at or after position i, 0 when there is none.
find_closing(s, i) ==
    IF \E j \in i..Len(s) : s[j] = ")"
    THEN SetMin({j \in i..Len(s) : s[j] = ")"})
    ELSE 0

RECURSIVE parse_chars(_, _, _)
\* The `while let Some(c) = chars.next()` loop of Fingering::parse, at
\* position i of s with the string states pushed so far.
parse_chars(s, i, strings) ==
    IF i > Len(s)
    THEN IF strings = <<>> THEN ParseErr("No strings found") ELSE ParseOk(strings)
    ELSE LET c == s[i] IN
         CASE c \in {"x", "X"} -> parse_chars(s, i + 1, Append(strings, Muted))
           [] IsDigit(c) -> parse_chars(s, i + 1, Append(strings, DigitValue(c)))
           [] c = "(" ->
                LET close == find_closing(s, i + 1) IN
                IF close = 0 THEN ParseErr("Unclosed parenthesis")
                ELSE LET fret == parse_u8(SubSeq(s, i + 1, close - 1)) IN
                     IF fret = None THEN ParseErr("Invalid fret number")
                     ELSE IF fret > 24 THEN ParseErr("Fret exceeds maximum")
                     ELSE parse_chars(s, close + 1, Append(strings, fret))
           [] c \in {" ", "-"} -> parse_chars(s, i + 1, strings)
           [] OTHER -> ParseErr("Invalid character")

\* Fingering::parse
parse(s) ==
    IF trim(s) = <<>> THEN ParseErr("Empty fingering")
    ELSE parse_chars(trim(s), 1, <<>>)

\* Only the last decimal digit of n.
decimal_units(n) == <<DigitChars[(n % 10) + 1]>>

RECURSIVE decimal(_)
\* The decimal digits of n, as `{fret}` formats a u8.
decimal(n) ==
    IF n < 10 THEN <<DigitChars[n + 1]>>
    ELSE decimal(n \div 10) \o <<DigitChars[(n % 10) + 1]>>

RECURSIVE display_no_parens(_)
\* Display with the parentheses of a two-digit fret left out.
display_no_parens(strings) ==
    IF strings = <<>> THEN <<>>
    ELSE (IF Head(strings) = Muted THEN <<"x">> ELSE decimal(Head(strings)))
         \o display_no_parens(Tail(strings))

RECURSIVE display(_)
\* impl Display for Fingering
display(strings) ==
    IF strings = <<>> THEN <<>>
    ELSE LET st == Head(strings) IN
         (IF st = Muted THEN <<"x">>
          ELSE IF st < 10 THEN decimal(st)
          ELSE <<"(">> \o decimal(st) \o <<")">>) \o display(Tail(strings))

----------------------------------------------------------------------------
(* SpecParse: a caller parses a notation string, then formats the result.  *)

MaxTextLen == 4

Alphabet == {"x", "X", "0", "2", "4", "5", "(", ")", " ", "-", "q", "+"}

Texts == SeqsUpTo(Alphabet, MaxTextLen)

NoParse == [ok |-> FALSE, strings |-> <<>>, err |-> "not parsed"]

InitParse ==
    /\ pc = "start"
    /\ text \in Texts
    /\ parsed = NoParse
    /\ shown = <<>>
    /\ inst = Idle /\ capoFret = 0 /\ capoResult = Idle
    /\ chord = Idle /\ opts = Idle /\ result1 = <<>> /\ result2 = <<>>
    /\ names = <<>> /\ popts = Idle /\ sequences = <<>> /\ generated = <<>>
    /\ given = <<>> /\ outcome = Idle

Parse ==
    /\ pc = "start"
    /\ parsed' = parse(text)
    /\ pc' = "parsed"
    /\ UNCHANGED <<text, shown, inst, capoFret, capoResult,
                   chord, opts, result1, result2, names, popts, sequences, generated,
                   given, outcome>>

Format ==
    /\ pc = "parsed"
    /\ parsed.ok
    /\ shown' = display(parsed.strings)
    /\ pc' = "shown"
    /\ UNCHANGED <<text, parsed, inst, capoFret, capoResult,
                   chord, opts, result1, result2, names, popts, sequences, generated,
                   given, outcome>>

NextParse == Parse \/ Format

SpecParse == InitParse /\ [][NextParse]_vars

----------------------------------------------------------------------------
(* Claims about the notation (SpecParse).                                   *)

RECURSIVE CanonicalFrom(_, _)
\* s from position i on is a run of canonical tokens: lowercase x, one
\* digit, or a parenthesised two-digit decimal number 10..24.
CanonicalFrom(s, i) ==
    \/ i > Len(s)
    \/ /\ i <= Len(s)
       /\ (s[i] = "x" \/ IsDigit(s[i]))
       /\ CanonicalFrom(s, i + 1)
    \/ /\ i + 3 <= Len(s)
       /\ s[i] = "(" /\ s[i + 3] = ")"
       /\ IsDigit(s[i + 1]) /\ IsDigit(s[i + 2])
       /\ DigitValue(s[i + 1]) * 10 + DigitValue(s[i + 2]) \in 10..24
       /\ CanonicalFrom(s, i + 4)

IsCanonical(s) == s # <<>> /\ CanonicalFrom(s, 1)

\* C4: for every notation string in canonical form (one token per string:
\* lowercase x, a single digit 0-9, a parenthesised decimal 10-24, no
\* separators) Fingering::parse succeeds and formatting the result yields
\* exactly the input string.
C4_RoundTripCanonical ==
    IsCanonical(text) =>
        /\ pc = "parsed" => parsed.ok
        /\ pc = "shown" => shown = text

C4_Witness ==
    /\ pc = "shown"
    /\ IsCanonical(text)
    /\ "(" \in Range(text)
    /\ shown = text

AllowedChars == {"x", "X", "(", ")", " ", "-"} \cup Range(DigitChars)

\* The parenthesised groups of s: for each '(' the characters up to the
\* first ')' after it.
Groups(s) ==
    {SubSeq(s, i + 1, find_closing(s, i + 1) - 1) :
        i \in {k \in 1..Len(s) : s[k] = "(" /\ find_closing(s, k + 1) # 0}}

IsNumber(g) == g # <<>> /\ \A i \in 1..Len(g) : IsDigit(g[i])

\* C5: Fingering::parse returns an InvalidFingering error, never a
\* fingering, for empty or whitespace-only input, for input containing a
\* character other than x, X, a digit, parentheses, space or '-', for an
\* opening parenthesis with no closing parenthesis, for a parenthesised
\* group that is empty or not a number, and for a parenthesised fret above
\* 24; a parenthesised fret of exactly 24 is accepted.
C5_ParseRejectsMalformed ==
    pc = "parsed" =>
        /\ trim(text) = <<>> => ~parsed.ok
        /\ (\E i \in 1..Len(text) : text[i] \notin AllowedChars) => ~parsed.ok
        /\ (\E i \in 1..Len(text) :
               text[i] = "(" /\ find_closing(text, i + 1) = 0) => ~parsed.ok
        /\ (\E g \in Groups(text) : ~IsNumber(g)) => ~parsed.ok
        /\ (\E g \in Groups(text) :
               IsNumber(g) /\ digits_value(g, 0) > 24) => ~parsed.ok
        /\ text = <<"(", "2", "4", ")">> => parsed = ParseOk(<<24>>)

----------------------------------------------------------------------------
(* note.rs: PitchClass and Note.                                            *)

C == 0
CSharp == 1
D == 2
DSharp == 3
E == 4
F == 5
FSharp == 6
G == 7
GSharp == 8
A == 9
ASharp == 10
B == 11

to_semitone(p) == p

from_semitone(semitone) == semitone % 12

SharpNames == <<"C", "C#", "D", "D#", "E", "F", "F#", "G", "G#", "A", "A#", "B">>

\* PitchClass::sharp_name, which Display for PitchClass writes.
sharp_name(p) == SharpNames[p + 1]

\* PitchClass::add_semitones (rem_euclid keeps the result in 0..11).
PitchClass_add_semitones(p, semitones) ==
    from_semitone((to_semitone(p) + semitones) % 12)

Note(p, o) == [pitch |-> p, octave |-> o]

\* `as u8` and `as i8` of an integer: the low 8 bits.
AsU8(n) == n % 256

AsI8(n) == ((n + 128) % 256) - 128

\* Integer division of Rust: truncation towards zero.
TruncDiv(a, b) == IF a >= 0 THEN a \div b ELSE -((-a) \div b)

\* Note::to_midi: i8 arithmetic, then `as u8`.
to_midi(n) == AsU8(AsI8(AsI8((n.octave + 1) * 12) + AsI8(to_semitone(n.pitch))))

\* Note::from_midi
from_midi(midi) == Note(from_semitone(midi % 12), TruncDiv(AsI8(midi), 12) - 1)

MidiMax == 127

\* add_semitones that advances the pitch class and forgets the octave.
Note_add_semitones_same_octave(n, semitones) ==
    Note(PitchClass_add_semitones(n.pitch, semitones), n.octave)

\* Note::add_semitones: the MIDI number is clamped to 0..=127.
Note_add_semitones(n, semitones) ==
    from_midi(AsU8(Max2(0, Min2(MidiMax, to_midi(n) + semitones))))

----------------------------------------------------------------------------
(* instrument.rs: the Instrument trait and its implementations.  An        *)
(* instrument value is a record with its struct's fields and a `kind`      *)
(* naming the implementing type; an unset Option field holds None (<<>>    *)
(* for the optional string names).                                         *)

Guitar ==
    [kind |-> "Guitar",
     tuning |-> <<Note(E, 2), Note(A, 2), Note(D, 3), Note(G, 3), Note(B, 3), Note(E, 4)>>,
     fret_range |-> <<0, 24>>,
     max_stretch |-> 4]

Ukulele ==
    [kind |-> "Ukulele",
     tuning |-> <<Note(G, 4), Note(C, 4), Note(E, 4), Note(A, 4)>>,
     fret_range |-> <<0, 15>>,
     max_stretch |-> 5]

\* struct ConfigurableInstrument
Configurable(name, tun, range, stretch, fingers, open_thr, barre_thr, min_played, bass_idx, str_names) ==
    [kind |-> "Configurable",
     name |-> name,
     tuning |-> tun,
     fret_range |-> range,
     max_stretch |-> stretch,
     max_fingers |-> fingers,
     open_position_threshold |-> open_thr,
     main_barre_threshold |-> barre_thr,
     min_played_strings |-> min_played,
     bass_string_index |-> bass_idx,
     string_names |-> str_names]

bass ==
    Configurable("Bass", <<Note(E, 1), Note(A, 1), Note(D, 2), Note(G, 2)>>,
                 <<0, 24>>, 4, None, None, None, 1, None, <<"E", "A", "D", "G">>)

bass_5_string ==
    Configurable("Bass (5-string)",
                 <<Note(B, 0), Note(E, 1), Note(A, 1), Note(D, 2), Note(G, 2)>>,
                 <<0, 24>>, 4, None, None, None, 1, None, <<"B", "E", "A", "D", "G">>)

mandolin ==
    Configurable("Mandolin", <<Note(G, 3), Note(D, 4), Note(A, 4), Note(E, 5)>>,
                 <<0, 17>>, 4, None, 5, None, 2, None, <<"G", "D", "A", "E">>)

banjo ==
    Configurable("Banjo",
                 <<Note(G, 4), Note(D, 3), Note(G, 3), Note(B, 3), Note(D, 4)>>,
                 <<0, 22>>, 4, None, 5, None, 2, 1, <<"g", "D", "G", "B", "d">>)

baritone_ukulele ==
    Configurable("Baritone Ukulele", <<Note(D, 3), Note(G, 3), Note(B, 3), Note(E, 4)>>,
                 <<0, 18>>, 5, None, 5, 2, 1, None, <<"D", "G", "B", "E">>)

guitar_7_string ==
    Configurable("Guitar (7-string)",
                 <<Note(B, 1), Note(E, 2), Note(A, 2), Note(D, 3), Note(G, 3),
                   Note(B, 3), Note(E, 4)>>,
                 <<0, 24>>, 4, None, None, None, None, None,
                 <<"B", "E", "A", "D", "G", "B", "e">>)

guitar_drop_d ==
    Configurable("Guitar (Drop D)",
                 <<Note(D, 2), Note(A, 2), Note(D, 3), Note(G, 3), Note(B, 3), Note(E, 4)>>,
                 <<0, 24>>, 4, None, None, None, None, None,
                 <<"D", "A", "D", "G", "B", "e">>)

guitar_open_g ==
    Configurable("Guitar (Open G)",
                 <<Note(D, 2), Note(G, 2), Note(D, 3), Note(G, 3), Note(B, 3), Note(D, 4)>>,
                 <<0, 24>>, 4, None, None, None, None, None,
                 <<"D", "G", "D", "G", "B", "d">>)

guitar_dadgad ==
    Configurable("Guitar (DADGAD)",
                 <<Note(D, 2), Note(A, 2), Note(D, 3), Note(G, 3), Note(A, 3), Note(D, 4)>>,
                 <<0, 24>>, 4, None, None, None, None, None,
                 <<"D", "A", "D", "G", "A", "d">>)

Presets ==
    {bass, bass_5_string, mandolin, banjo, baritone_ukulele, guitar_7_string,
     guitar_drop_d, guitar_open_g, guitar_dadgad}

\* ConfigurableInstrumentBuilder::build with tuning, fret range and stretch
\* set and every optional override left unset.
build(tun, range, stretch) ==
    Configurable("Custom Instrument", tun, range, stretch,
                 None, None, None, None, None, <<>>)

IsCapoed(i) == i.kind = "Capoed"

tuning(i) == i.tuning

fret_range(i) == i.fret_range

\* Default method of the trait, on the instrument's own tuning.
default_string_count(i) == Len(tuning(i))

string_count(i) ==
    IF IsCapoed(i) THEN default_string_count(i.inner) ELSE default_string_count(i)

inner_max_stretch(i) == i.max_stretch

max_stretch(i) ==
    IF IsCapoed(i) THEN inner_max_stretch(i.inner) ELSE inner_max_stretch(i)

DefaultMaxFingers == 4

inner_max_fingers(i) ==
    IF i.kind = "Configurable" /\ i.max_fingers # None THEN i.max_fingers
    ELSE DefaultMaxFingers

max_fingers(i) ==
    IF IsCapoed(i) THEN inner_max_fingers(i.inner) ELSE inner_max_fingers(i)

DefaultOpenPositionThreshold == 4

UkuleleOpenPositionThreshold == 5

inner_open_position_threshold(i) ==
    CASE i.kind = "Ukulele" -> UkuleleOpenPositionThreshold
      [] i.kind = "Configurable" /\ i.open_position_threshold # None ->
            i.open_position_threshold
      [] OTHER -> DefaultOpenPositionThreshold

open_position_threshold(i) ==
    IF IsCapoed(i) THEN inner_open_position_threshold(i.inner)
    ELSE inner_open_position_threshold(i)

\* (string_count / 2).max(2): the trait's default for both thresholds.
half_strings_min_2(i) == Max2(default_string_count(i) \div 2, 2)

UkuleleMainBarreThreshold == 2

inner_main_barre_threshold(i) ==
    CASE i.kind = "Ukulele" -> UkuleleMainBarreThreshold
      [] i.kind = "Configurable" /\ i.main_barre_threshold # None ->
            i.main_barre_threshold
      [] OTHER -> half_strings_min_2(i)

main_barre_threshold(i) ==
    IF IsCapoed(i) THEN inner_main_barre_threshold(i.inner)
    ELSE inner_main_barre_threshold(i)

UkuleleMinPlayedStrings == 1

inner_min_played_strings(i) ==
    CASE i.kind = "Ukulele" -> UkuleleMinPlayedStrings
      [] i.kind = "Configurable" /\ i.min_played_strings # None ->
            i.min_played_strings
      [] OTHER -> half_strings_min_2(i)

\* min_played_strings without CapoedInstrument's delegation to the inner
\* instrument: the trait default on the capoed tuning.
min_played_strings_no_delegate(i) ==
    IF IsCapoed(i) THEN half_strings_min_2(i) ELSE inner_min_played_strings(i)

min_played_strings(i) ==
    IF IsCapoed(i) THEN inner_min_played_strings(i.inner)
    ELSE inner_min_played_strings(i)

UkuleleBassStringIndex == 1

inner_bass_string_index(i) ==
    CASE i.kind = "Ukulele" -> UkuleleBassStringIndex
      [] i.kind = "Configurable" /\ i.bass_string_index # None ->
            i.bass_string_index
      [] OTHER -> 0

bass_string_index(i) ==
    IF IsCapoed(i) THEN inner_bass_string_index(i.inner)
    ELSE inner_bass_string_index(i)

MaxCapoCeiling == 12

\* max_capo_fret without the halving of the fret range.
max_capo_fret_no_half(i) == Min2(MaxCapoCeiling, fret_range(i)[2])

\* Instrument::max_capo_fret: not overridden by any implementation.
max_capo_fret(i) == Min2(MaxCapoCeiling, fret_range(i)[2] \div 2)

\* Default method of the trait: the pitch class name of every open string.
default_string_names(i) == [s \in 1..Len(tuning(i)) |-> sharp_name(tuning(i)[s].pitch)]

GuitarStringNames == <<"E", "A", "D", "G", "B", "e">>

\* Instrument::string_names: overridden by Guitar and ConfigurableInstrument,
\* not by CapoedInstrument.
string_names(i) ==
    CASE i.kind = "Guitar" -> GuitarStringNames
      [] i.kind = "Configurable" /\ i.string_names # <<>> -> i.string_names
      [] OTHER -> default_string_names(i)

\* u8::saturating_sub
saturating_sub(a, b) == Max2(0, a - b)

CapoOk(value) == [ok |-> TRUE, value |-> value, err |-> <<>>]

CapoErr(err) == [ok |-> FALSE, value |-> Idle, err |-> err]

\* CapoedInstrument::new, which every with_capo calls on a clone of self.
CapoedInstrument_new(instrument, fret) ==
    LET max_capo == max_capo_fret(instrument) IN
    IF fret > max_capo
    THEN CapoErr(<<"InvalidCapoPosition", fret, 0, max_capo>>)
    ELSE CapoOk([kind |-> "Capoed",
                 inner |-> instrument,
                 tuning |-> [s \in 1..Len(tuning(instrument)) |->
                                Note_add_semitones(tuning(instrument)[s], fret)],
                 fret_range |-> <<0, saturating_sub(fret_range(instrument)[2], fret)>>])

with_capo(instrument, fret) == CapoedInstrument_new(instrument, fret)

----------------------------------------------------------------------------
(* fingering.rs: facts derived from a fingering.  String indices are       *)
(* 1-based here (the source's index plus one).                             *)

\* The frets of the fretted, non-open strings.
nonopen_frets(f) == {f[i] : i \in {k \in 1..Len(f) : f[k] > 0}}

\* Fingering::min_fret: lowest non-open fret, None when there is none.
min_fret(f) == IF nonopen_frets(f) = {} THEN None ELSE SetMin(nonopen_frets(f))

\* Fingering::max_fret: highest fret of a played string (open included).
max_fret(f) ==
    IF \A i \in 1..Len(f) : f[i] = Muted THEN None
    ELSE SetMax({f[i] : i \in {k \in 1..Len(f) : f[k] # Muted}})

\* Fingering::fret_span
fret_span(f) ==
    IF nonopen_frets(f) = {} THEN 0
    ELSE SetMax(nonopen_frets(f)) - SetMin(nonopen_frets(f))

has_open_string(f) == \E i \in 1..Len(f) : f[i] = 0

unwrap_or(v, dflt) == IF v = None THEN dflt ELSE v

\* Fingering::is_open_position_for
is_open_position_for(f, instrument) ==
    /\ has_open_string(f)
    /\ unwrap_or(max_fret(f), 0) <= open_position_threshold(instrument)

\* Fingering::requires_barre
requires_barre(f) ==
    IF min_fret(f) = None THEN FALSE
    ELSE Cardinality({i \in 1..Len(f) : f[i] = min_fret(f)}) >= 2

has_barre(f) == requires_barre(f)

RECURSIVE sorted_asc(_)
\* The elements of a set of integers in ascending order.
sorted_asc(S) ==
    IF S = {} THEN <<>> ELSE <<SetMin(S)>> \o sorted_asc(S \ {SetMin(S)})

RECURSIVE sorted_desc(_)
sorted_desc(S) ==
    IF S = {} THEN <<>> ELSE <<SetMax(S)>> \o sorted_desc(S \ {SetMax(S)})

\* The string indices pushed under key `fret` of the fret_groups /
\* frets_map of a fingering, in the order pushed (ascending).
strings_at(f, fret) == sorted_asc({i \in 1..Len(f) : f[i] = fret})

RECURSIVE consecutive_loop(_, _, _, _)
\* The `for i in 1..sorted.len()` loop of count_consecutive_strings.
consecutive_loop(sorted, i, current_consecutive, max_consecutive) ==
    IF i > Len(sorted) THEN max_consecutive
    ELSE IF sorted[i] = sorted[i - 1] + 1
         THEN consecutive_loop(sorted, i + 1, current_consecutive + 1,
                               Max2(max_consecutive, current_consecutive + 1))
         ELSE consecutive_loop(sorted, i + 1, 1, max_consecutive)

\* Fingering::count_consecutive_strings
count_consecutive_strings(strings) ==
    IF strings = <<>> THEN 0 ELSE consecutive_loop(strings, 2, 1, 1)

RECURSIVE barre_loop(_, _, _, _)
\* The `for (fret, strings) in fret_groups.iter()` loop of
\* has_high_barre_with_threshold; `order` is the order in which the HashMap
\* yields its keys.  Returns <<max_barre_length, max_barre_fret>>.
barre_loop(f, order, max_barre_length, max_barre_fret) ==
    IF order = <<>> THEN <<max_barre_length, max_barre_fret>>
    ELSE LET consecutive == count_consecutive_strings(strings_at(f, Head(order))) IN
         IF consecutive > max_barre_length
         THEN barre_loop(f, Tail(order), consecutive, Head(order))
         ELSE barre_loop(f, Tail(order), max_barre_length, max_barre_fret)

\* Fingering::has_high_barre_with_threshold.  std's HashMap iterates in an
\* order that its per-map random hasher decides; `order` is that order.
has_high_barre_with_threshold(f, threshold, order) ==
    IF min_fret(f) = None THEN FALSE
    ELSE LET m == barre_loop(f, order, 0, 0) IN
         m[1] >= threshold /\ m[2] > min_fret(f)

\* Fingering::has_high_barre_for
has_high_barre_for(f, instrument, order) ==
    has_high_barre_with_threshold(f, main_barre_threshold(instrument), order)

\* The iteration orders of a fingering's fret_groups map.
map_orders(f) == Perms(nonopen_frets(f))

RECURSIVE fingers_loop(_, _, _)
\* The `while i < sorted.len()` loop of count_fingers_for_strings.
fingers_loop(sorted, i, finger_count) ==
    IF i > Len(sorted) THEN finger_count
    ELSE LET last == SetMin({j \in i..Len(sorted) :
                               j = Len(sorted) \/ sorted[j + 1] # sorted[j] + 1})
         IN  fingers_loop(sorted, last + 1, finger_count + 1)

\* One finger for every fret, however its strings lie.
count_fingers_one_per_fret(strings) == IF strings = <<>> THEN 0 ELSE 1

\* Fingering::count_fingers_for_strings
count_fingers_for_strings(strings) ==
    IF strings = <<>> THEN 0
    ELSE IF Len(strings) = 1 THEN 1
    ELSE fingers_loop(strings, 1, 0)

RECURSIVE fingers_sum(_, _)
\* The `for (_fret, strings) in frets_map.iter()` loop (a BTreeMap: keys
\* ascending) of min_fingers_required.
fingers_sum(f, frets) ==
    IF frets = <<>> THEN 0
    ELSE count_fingers_for_strings(strings_at(f, Head(frets))) + fingers_sum(f, Tail(frets))

\* Fingering::min_fingers_required
min_fingers_required(f) == AsU8(fingers_sum(f, sorted_asc(nonopen_frets(f))))

\* Fingering::is_playable_with_constraints
is_playable_with_constraints(f, stretch, fingers) ==
    IF fret_span(f) > stretch THEN FALSE
    ELSE IF min_fingers_required(f) > fingers THEN FALSE
    ELSE TRUE

\* Fingering::is_playable_for
is_playable_for(f, instrument) ==
    is_playable_with_constraints(f, max_stretch(instrument), max_fingers(instrument))

\* Fingering::unique_pitch_classes: the sorted, deduplicated pitch classes,
\* of which the callers only ask membership.
unique_pitch_classes(f, instrument) ==
    {Note_add_semitones(tuning(instrument)[i], f[i]).pitch :
        i \in {j \in 1..Min2(Len(f), Len(tuning(instrument))) : f[j] # Muted}}

\* An interior count that takes every open string.
interior_open_string_count_any(f) == Cardinality({i \in 1..Len(f) : f[i] = 0})

\* Fingering::interior_open_string_count
interior_open_string_count(f) ==
    LET fretted == {i \in 1..Len(f) : f[i] > 0} IN
    IF fretted = {} \/ SetMax(fretted) <= SetMin(fretted) THEN 0
    ELSE Cardinality({i \in SetMin(fretted)..SetMax(fretted) : f[i] = 0})

\* A finger-usage term that grows with the fingers used.
finger_usage_term_rising(fingers, limit) ==
    IF limit = 0 THEN 15
    ELSE IF 4 * fingers <= limit THEN -5
    ELSE IF 2 * fingers <= limit THEN 0
    ELSE IF 4 * fingers <= 3 * limit THEN 10
    ELSE 15

\* The graduated finger-usage term.  finger_ratio is an f32 quotient of two
\* u8 values: its comparisons with 0.25, 0.5, 0.75 are exact, and with
\* max_fingers = 0 (fingers = 0) the quotient is NaN and every test fails.
finger_usage_term(fingers, limit) ==
    IF limit = 0 THEN -5
    ELSE IF 4 * fingers <= limit THEN 15
    ELSE IF 2 * fingers <= limit THEN 10
    ELSE IF 4 * fingers <= 3 * limit THEN 0
    ELSE -5

\* A clamp that bounds from below only.
clamp_from_below(v, lo, hi) == Max2(lo, v)

\* i32::clamp
clamp(v, lo, hi) == Max2(lo, Min2(hi, v))

\* Fingering::playability_score_with_params; `order` as in
\* has_high_barre_with_threshold.
playability_score_with_params(f, stretch, fingers_limit, barre_thr, open_thr, order) ==
    IF fret_span(f) > stretch THEN 0
    ELSE IF min_fingers_required(f) > fingers_limit THEN 0
    ELSE LET interior_opens == interior_open_string_count(f)
             is_open == /\ has_open_string(f)
                        /\ unwrap_or(max_fret(f), 0) <= open_thr
                        /\ interior_opens = 0
             muted_count == Cardinality({i \in 1..Len(f) : ~is_played(f[i])})
             score == 100 - fret_span(f) * 10
                      + finger_usage_term(min_fingers_required(f), fingers_limit)
                      - (IF has_high_barre_with_threshold(f, barre_thr, order) THEN 40 ELSE 0)
                      - (IF interior_opens > 0 THEN interior_opens * 15 ELSE 0)
                      + (IF is_open THEN 10 ELSE 0)
                      - (IF min_fret(f) # None /\ min_fret(f) > 7
                         THEN (min_fret(f) - 7) * 2 ELSE 0)
                      - (IF muted_count > 1 THEN (muted_count - 1) * 5 ELSE 0)
         IN  clamp(score, 0, 100)

\* Fingering::playability_score_for
playability_score_for(f, instrument, order) ==
    playability_score_with_params(f, max_stretch(instrument), max_fingers(instrument),
        main_barre_threshold(instrument), open_position_threshold(instrument), order)

\* Option::<Note>::None
NoNote == [pitch |-> None, octave |-> 0]

\* Fingering::bass_note: the note of the first played string from the bass
\* string index up, else of the first played string below it; NoNote if
\* all strings are muted.
bass_note(f, instrument) ==
    LET bass_idx == bass_string_index(instrument) + 1
        count == Min2(Len(f), Len(tuning(instrument)))
        upper == {i \in bass_idx..count : f[i] # Muted}
        lower == {i \in 1..(bass_idx - 1) : f[i] # Muted}
    IN  IF upper # {}
        THEN Note_add_semitones(tuning(instrument)[SetMin(upper)], f[SetMin(upper)])
        ELSE IF lower # {}
        THEN Note_add_semitones(tuning(instrument)[SetMin(lower)], f[SetMin(lower)])
        ELSE NoNote

----------------------------------------------------------------------------
(* interval.rs and chord.rs: the tones of a chord.  An interval is a       *)
(* record [quality, distance]; a chord a record [root, quality].           *)

Interval(q, dist) == [quality |-> q, distance |-> dist]

UNISON == Interval("Perfect", 1)
MAJOR_SECOND == Interval("Major", 2)
MINOR_THIRD == Interval("Minor", 3)
MAJOR_THIRD == Interval("Major", 3)
PERFECT_FOURTH == Interval("Perfect", 4)
PERFECT_FIFTH == Interval("Perfect", 5)
MINOR_SEVENTH == Interval("Minor", 7)
MAJOR_SEVENTH == Interval("Major", 7)
MAJOR_NINTH == Interval("Major", 9)

\* Interval::is_perfect_interval
is_perfect_interval(iv) == ((iv.distance - 1) % 7) + 1 \in {1, 4, 5}

BaseSemitones == <<0, 2, 4, 5, 7, 9, 11, 12>>

RECURSIVE to_semitones(_)
\* Interval::to_semitones
to_semitones(iv) ==
    IF iv.distance > 8
    THEN ((iv.distance - 1) \div 7) * 12
         + to_semitones(Interval(iv.quality, ((iv.distance - 1) % 7) + 1))
    ELSE LET base == BaseSemitones[iv.distance] IN
         CASE iv.quality = "Perfect" /\ is_perfect_interval(iv) -> base
           [] iv.quality = "Major" /\ ~is_perfect_interval(iv) -> base
           [] iv.quality = "Minor" /\ ~is_perfect_interval(iv) -> base - 1
           [] iv.quality = "Augmented" -> base + 1
           [] iv.quality = "Diminished" -> base - 1
           [] OTHER -> base

\* ChordQuality::intervals: <<required, optional>>, for the qualities the
\* model draws chords from.
intervals(quality) ==
    CASE quality = "Major" -> <<<<UNISON, MAJOR_THIRD, PERFECT_FIFTH>>, <<>>>>
      [] quality = "Minor" -> <<<<UNISON, MINOR_THIRD, PERFECT_FIFTH>>, <<>>>>
      [] quality = "Sus2" -> <<<<UNISON, MAJOR_SECOND, PERFECT_FIFTH>>, <<>>>>
      [] quality = "Sus4" -> <<<<UNISON, PERFECT_FOURTH, PERFECT_FIFTH>>, <<>>>>
      [] quality = "Dominant7" ->
            <<<<UNISON, MAJOR_THIRD, PERFECT_FIFTH, MINOR_SEVENTH>>, <<>>>>
      [] quality = "Major7" ->
            <<<<UNISON, MAJOR_THIRD, PERFECT_FIFTH, MAJOR_SEVENTH>>, <<>>>>
      [] quality = "Major9" ->
            <<<<UNISON, MAJOR_THIRD, MAJOR_SEVENTH, MAJOR_NINTH>>, <<PERFECT_FIFTH>>>>

\* ChordQuality::can_omit_fifth, for the same qualities.
can_omit_fifth(quality) == quality \in {"Dominant7", "Major7", "Major9"}

\* Chord::new
Chord(root, quality) == [root |-> root, quality |-> quality, bass |-> None]

\* Chord::notes: required then optional intervals above the root.
notes(ch) ==
    LET all == intervals(ch.quality)[1] \o intervals(ch.quality)[2] IN
    [k \in 1..Len(all) |-> PitchClass_add_semitones(ch.root, to_semitones(all[k]))]

\* Chord::core_notes: the required intervals, without the perfect fifth
\* when the quality lets it be omitted.
core_notes(ch) ==
    LET required == intervals(ch.quality)[1]
        kept == SelectSeq(required,
                    LAMBDA iv : IF can_omit_fifth(ch.quality)
                                THEN iv.distance # 5 \/ iv.quality # "Perfect"
                                ELSE TRUE)
    IN  [k \in 1..Len(kept) |-> PitchClass_add_semitones(ch.root, to_semitones(kept[k]))]

UpperLetters ==
    <<"A", "B", "C", "D", "E", "F", "G", "H", "I", "J", "K", "L", "M",
      "N", "O", "P", "Q", "R", "S", "T", "U", "V", "W", "X", "Y", "Z">>

LowerLetters ==
    <<"a", "b", "c", "d", "e", "f", "g", "h", "i", "j", "k", "l", "m",
      "n", "o", "p", "q", "r", "s", "t", "u", "v", "w", "x", "y", "z">>

\* str::to_uppercase and str::to_lowercase on ASCII text.
to_uppercase(s) ==
    [k \in 1..Len(s) |->
        IF \E n \in 1..26 : LowerLetters[n] = s[k]
        THEN UpperLetters[CHOOSE n \in 1..26 : LowerLetters[n] = s[k]] ELSE s[k]]

to_lowercase(s) ==
    [k \in 1..Len(s) |->
        IF \E n \in 1..26 : UpperLetters[n] = s[k]
        THEN LowerLetters[CHOOSE n \in 1..26 : UpperLetters[n] = s[k]] ELSE s[k]]

\* The flat sign (U+266D) and the sharp sign (U+266F), each one character
\* of three bytes in UTF-8; every other character of the model is ASCII.
Flat == "U+266D"

Sharp == "U+266F"

\* char::len_utf8
len_utf8(c) == IF c \in {Flat, Sharp} THEN 3 ELSE 1

RECURSIVE as_str(_)
\* The characters of s as one string, for comparison with a literal.
as_str(s) == IF s = <<>> THEN "" ELSE Head(s) \o as_str(Tail(s))

\* PitchClass::parse: the pitch class, or None for Err.
PitchClass_parse(s) ==
    LET u == as_str(to_uppercase(trim(s))) IN
    CASE u = "C" -> C
      [] u \in {"C#", "CS", "DB", "D" \o Flat} -> CSharp
      [] u = "D" -> D
      [] u \in {"D#", "DS", "EB", "E" \o Flat} -> DSharp
      [] u = "E" -> E
      [] u = "F" -> F
      [] u \in {"F#", "FS", "GB", "G" \o Flat} -> FSharp
      [] u = "G" -> G
      [] u \in {"G#", "GS", "AB", "A" \o Flat} -> GSharp
      [] u = "A" -> A
      [] u \in {"A#", "AS", "BB", "B" \o Flat} -> ASharp
      [] u = "B" -> B
      [] OTHER -> None

\* Chord::parse_quality: the quality's name, or "Err".  The match is on
\* the text with the flat and sharp signs removed and then lowercased, so
\* an arm spelt with a capital letter or with one of the signs is never
\* taken.
parse_quality(s) ==
    LET l == as_str(to_lowercase(SelectSeq(s, LAMBDA c : c \notin {Flat, Sharp}))) IN
    IF s = <<>> THEN "Major"
    ELSE CASE l \in {"m(maj7)", "mmaj7", "minmaj7"} -> "MinorMajor7"
           [] l \in {"m7b5", "half-dim", "halfdim"} -> "HalfDiminished7"
           [] l \in {"madd9", "m(add9)"} -> "MinorAdd9"
           [] l \in {"m13", "min13"} -> "Minor13"
           [] l \in {"m11", "min11"} -> "Minor11"
           [] l \in {"m9", "min9"} -> "Minor9"
           [] l \in {"m7", "min7"} -> "Minor7"
           [] l \in {"m6", "min6"} -> "Minor6"
           [] l \in {"m", "min", "-"} -> "Minor"
           [] l = "maj13" -> "Major13"
           [] l = "maj9" -> "Major9"
           [] l = "maj7" -> "Major7"
           [] l = "maj" -> "Major"
           [] l = "13" -> "Dominant13"
           [] l = "11" -> "Dominant11"
           [] l = "9" -> "Dominant9"
           [] l = "7#9" -> "Dominant7sharp9"
           [] l = "7b9" -> "Dominant7b9"
           [] l \in {"7#5", "7aug", "+7"} -> "Dominant7sharp5"
           [] l = "7b5" -> "Dominant7b5"
           [] l = "7" -> "Dominant7"
           [] l \in {"dim7", "o7"} -> "Diminished7"
           [] l \in {"dim", "o"} -> "Diminished"
           [] l \in {"aug", "+"} -> "Augmented"
           [] l \in {"sus4", "sus"} -> "Sus4"
           [] l = "sus2" -> "Sus2"
           [] l = "add11" -> "Add11"
           [] l = "add9" -> "Add9"
           [] l = "6" -> "Major6"
           [] OTHER -> "Err"

ChordOk(ch) == [ok |-> TRUE, chord |-> ch, panic |-> FALSE]

ChordErr == [ok |-> FALSE, chord |-> Chord(None, "Err"), panic |-> FALSE]

\* The call does not return: `&s[..root_end]` cuts inside a character.
ChordPanic == [ok |-> FALSE, chord |-> Chord(None, "Err"), panic |-> TRUE]

\* Chord::parse below the slash test: root of one or two bytes, then the
\* quality.  root_end counts bytes: after a first character of several
\* bytes the second byte is neither '#' nor 'b', root_end is 1, and the
\* slice at byte 1 is not on a character boundary.
parse_plain(t) ==
    LET root_end == IF Len(t) > 1 /\ t[2] \in {"#", "b"} THEN 2 ELSE 1
        root == PitchClass_parse(SubSeq(t, 1, root_end))
        quality == parse_quality(SubSeq(t, root_end + 1, Len(t)))
    IN  IF len_utf8(t[1]) > 1 THEN ChordPanic
        ELSE IF root = None THEN ChordErr
        ELSE IF quality = "Err" THEN ChordErr
        ELSE ChordOk(Chord(root, quality))

\* Chord::parse.  The part before a slash holds no slash, so the
\* recursive call on it takes the plain path.
Chord_parse(s) ==
    LET t == trim(s)
        slashes == {k \in 1..Len(t) : t[k] = "/"}
    IN  IF t = <<>> THEN ChordErr
        ELSE IF slashes # {}
        THEN LET slash_pos == SetMin(slashes)
                 chord_part == trim(SubSeq(t, 1, slash_pos - 1))
                 inner == IF chord_part = <<>> THEN ChordErr ELSE parse_plain(chord_part)
                 bass_pitch == PitchClass_parse(SubSeq(t, slash_pos + 1, Len(t)))
             IN  IF ~inner.ok THEN inner
                 ELSE IF bass_pitch = None THEN ChordErr
                 ELSE ChordOk([inner.chord EXCEPT !.bass = bass_pitch])
        ELSE parse_plain(t)

----------------------------------------------------------------------------
(* generator.rs: generate_fingerings.                                      *)

\* GeneratorOptions; preferred_position is None or a fret, voicing_type is
\* "None" or the VoicingType asked for.
GeneratorOptions(limit, preferred_position, voicing_type, root_in_bass, maxf, context) ==
    [limit |-> limit,
     preferred_position |-> preferred_position,
     voicing_type |-> voicing_type,
     root_in_bass |-> root_in_bass,
     max_fret |-> maxf,
     playing_context |-> context]

\* The per-string options: Muted, then every fret 0..=max_fret whose pitch
\* class is a chord tone, ascending.
string_options(tun, all_notes, maxf) ==
    [s \in 1..Len(tun) |->
        <<Muted>> \o sorted_asc({fret \in 0..maxf :
            PitchClass_add_semitones(tun[s].pitch, fret) \in Range(all_notes)})]

\* should_continue_branch with the open strings counted in the span.
should_continue_branch_open_in_span(current, total_strings, stretch, min_played) ==
    LET played == Cardinality({i \in 1..Len(current) : is_played(current[i])})
        remaining == total_strings - Len(current)
        frets == {current[i] : i \in {k \in 1..Len(current) : is_played(current[k])}}
    IN  IF played + remaining < min_played THEN FALSE
        ELSE IF played < 2 THEN TRUE
        ELSE SetMax(frets) - SetMin(frets) <= stretch

\* should_continue_branch
should_continue_branch(current, total_strings, stretch, min_played) ==
    LET played == Cardinality({i \in 1..Len(current) : is_played(current[i])})
        remaining == total_strings - Len(current)
    IN  IF played + remaining < min_played THEN FALSE
        ELSE IF played < 2 THEN TRUE
        ELSE IF nonopen_frets(current) = {} THEN TRUE
        ELSE SetMax(nonopen_frets(current)) - SetMin(nonopen_frets(current)) <= stretch

RECURSIVE generate_combinations_pruned(_, _, _, _, _)
RECURSIVE options_loop(_, _, _, _, _, _)
\* generate_combinations_pruned: the results pushed below `current`, in the
\* order pushed.
generate_combinations_pruned(options, current, total_strings, stretch, min_played) ==
    IF Len(current) = total_strings THEN <<current>>
    ELSE options_loop(options, current, 1, total_strings, stretch, min_played)

\* The `for state in &string_options[string_idx]` loop, from option k on.
options_loop(options, current, k, total_strings, stretch, min_played) ==
    IF k > Len(options[Len(current) + 1]) THEN <<>>
    ELSE LET next == Append(current, options[Len(current) + 1][k]) IN
         (IF should_continue_branch(next, total_strings, stretch, min_played)
          THEN generate_combinations_pruned(options, next, total_strings, stretch, min_played)
          ELSE <<>>)
         \o options_loop(options, current, k + 1, total_strings, stretch, min_played)

\* generate_combinations_for_instrument
generate_combinations_for_instrument(options, total_strings, instrument) ==
    generate_combinations_pruned(options, <<>>, total_strings,
        max_stretch(instrument), min_played_strings(instrument))

STRING_USAGE_BONUS == 8
INTERIOR_MUTE_PENALTY == 30
POSITION_DISTANCE_PENALTY == 3
SOLO_ROOT_IN_BASS_BONUS == 30
SOLO_FULL_VOICING_BONUS == 20
SOLO_CORE_VOICING_BONUS == 5
SOLO_JAZZY_WITHOUT_ROOT_PENALTY == 15
SOLO_POSITION_THRESHOLD == 5
SOLO_HIGH_POSITION_PENALTY == 5
BAND_ROOT_IN_BASS_BONUS == 5
BAND_COMPACT_VOICING_BONUS == 20
BAND_FULL_VOICING_BONUS == 5
BAND_AVOID_LOW_STRINGS_BONUS == 10
BAND_MID_NECK_MIN == 3
BAND_MID_NECK_MAX == 10
BAND_POSITION_PENALTY == 3
GUITAR_LOW_E_STRING == 0
GUITAR_A_STRING == 1

\* strings.get(idx).map(|s| s.is_played()).unwrap_or(false), idx 0-based.
uses_string(f, idx) == idx + 1 <= Len(f) /\ is_played(f[idx + 1])

\* Every muted string counted, the leading and trailing ones included.
interior_mutes_any(f) == Cardinality({i \in 1..Len(f) : ~is_played(f[i])})

\* The muted strings between the first and the last played string.
interior_mutes(f) ==
    LET played == {i \in 1..Len(f) : is_played(f[i])} IN
    IF played = {} THEN 0
    ELSE Cardinality({i \in SetMin(played)..SetMax(played) : ~is_played(f[i])})

\* The Solo arm of score_fingering's match.
solo_terms(options, fo) ==
    (IF fo.has_root_in_bass THEN SOLO_ROOT_IN_BASS_BONUS ELSE 0)
    + (IF fo.has_all_notes THEN SOLO_FULL_VOICING_BONUS
       ELSE IF fo.has_all_core THEN SOLO_CORE_VOICING_BONUS ELSE 0)
    - (IF fo.voicing_type = "Jazzy" /\ ~fo.has_root_in_bass
       THEN SOLO_JAZZY_WITHOUT_ROOT_PENALTY ELSE 0)
    - (IF options.preferred_position # None
       THEN Abs(fo.position - options.preferred_position) * POSITION_DISTANCE_PENALTY
       ELSE IF fo.position > SOLO_POSITION_THRESHOLD
       THEN (fo.position - SOLO_POSITION_THRESHOLD) * SOLO_HIGH_POSITION_PENALTY
       ELSE 0)

\* The Band arm of score_fingering's match.
band_terms(f, options, fo) ==
    (IF fo.has_root_in_bass THEN BAND_ROOT_IN_BASS_BONUS ELSE 0)
    + (IF fo.voicing_type \in {"Core", "Jazzy"} THEN BAND_COMPACT_VOICING_BONUS
       ELSE BAND_FULL_VOICING_BONUS)
    + (IF ~uses_string(f, GUITAR_LOW_E_STRING) /\ ~uses_string(f, GUITAR_A_STRING)
       THEN BAND_AVOID_LOW_STRINGS_BONUS ELSE 0)
    - (IF options.preferred_position # None
       THEN Abs(fo.position - options.preferred_position) * POSITION_DISTANCE_PENALTY
       ELSE IF fo.position >= BAND_MID_NECK_MIN /\ fo.position <= BAND_MID_NECK_MAX THEN 0
       ELSE IF fo.position < BAND_MID_NECK_MIN
       THEN (BAND_MID_NECK_MIN - fo.position) * BAND_POSITION_PENALTY
       ELSE (fo.position - BAND_MID_NECK_MAX) * BAND_POSITION_PENALTY)

\* score_fingering (an i32); fo is the FingeringScorerOptions, `order` the
\* iteration order of the fingering's fret_groups map.
score_fingering(f, instrument, options, fo, order) ==
    playability_score_for(f, instrument, order)
    + fo.played_count * STRING_USAGE_BONUS
    - interior_mutes(f) * INTERIOR_MUTE_PENALTY
    + (IF options.playing_context = "Solo" THEN solo_terms(options, fo)
       ELSE band_terms(f, options, fo))

\* The order in which the fret_groups map of fingering f yields its keys in
\* one invocation: highest fret first for the maps in desc_maps, lowest
\* first for the others.  A map's outcome in has_high_barre_with_threshold
\* depends only on which of the frets with the longest barre comes first,
\* and among them only on whether it is the lowest fret of the fingering:
\* these two orders produce every outcome any order can.
iteration_order(f, desc_maps) ==
    IF f \in desc_maps THEN sorted_desc(nonopen_frets(f)) ELSE sorted_asc(nonopen_frets(f))

\* The position of a fingering: the mean of its non-open frets, rounded
\* down (0 without any).
position_of(f) ==
    LET fretted == SelectSeq(f, LAMBDA st : st > 0) IN
    IF fretted = <<>> THEN 0 ELSE AsU8(SumSeq(fretted) \div Len(fretted))

\* A filter that leaves out the playability test.
passes_filter_unchecked(f, ch, instrument, options) ==
    LET pitches == unique_pitch_classes(f, instrument) IN
    /\ ~(options.voicing_type = "Full" /\ ~(Range(notes(ch)) \subseteq pitches))
    /\ ~(options.voicing_type = "Core" /\ ~(Range(core_notes(ch)) \subseteq pitches))

\* The filter of generate_fingerings' filter_map closure: TRUE when the
\* closure returns Some.
passes_filter(f, ch, instrument, options) ==
    LET played_count == Cardinality({i \in 1..Len(f) : is_played(f[i])})
        pitches == unique_pitch_classes(f, instrument)
        has_all_core == Range(core_notes(ch)) \subseteq pitches
        has_all_notes == Range(notes(ch)) \subseteq pitches
    IN  /\ is_playable_for(f, instrument)
        /\ played_count >= min_played_strings(instrument)
        /\ ~(options.voicing_type = "Full" /\ ~has_all_notes)
        /\ ~(options.voicing_type = "Core" /\ ~has_all_core)

\* The FingeringScorerOptions that the filter_map closure hands to
\* score_fingering.
scorer_options(f, ch, instrument) ==
    LET pitches == unique_pitch_classes(f, instrument)
        has_all_core == Range(core_notes(ch)) \subseteq pitches
        has_all_notes == Range(notes(ch)) \subseteq pitches
    IN  [has_all_notes |-> has_all_notes,
         has_all_core |-> has_all_core,
         has_root_in_bass |-> bass_note(f, instrument).pitch = ch.root,
         position |-> position_of(f),
         played_count |-> Cardinality({i \in 1..Len(f) : is_played(f[i])}),
         voicing_type |-> IF has_all_notes THEN "Full"
                          ELSE IF has_all_core THEN "Core" ELSE "Jazzy"]

\* The ScoredFingering that the filter_map closure builds; the score field
\* is a u8 filled by `score.max(0) as u8`.
scored_fingering(f, ch, instrument, options, order) ==
    LET fo == scorer_options(f, ch, instrument)
        score == score_fingering(f, instrument, options, fo, order)
    IN  [fingering |-> f,
         score |-> AsU8(Max2(score, 0)),
         voicing_type |-> fo.voicing_type,
         has_root_in_bass |-> fo.has_root_in_bass,
         position |-> fo.position]

\* The order of the search, left as it is.
unsorted(scored) == scored

RECURSIVE by_scores(_, _)
\* The elements of `scored` whose score is the first of `scores`, in their
\* order in `scored`, then those of the second, and so on.
by_scores(scored, scores) ==
    IF scores = <<>> THEN <<>>
    ELSE SelectSeq(scored, LAMBDA e : e.score = Head(scores))
         \o by_scores(scored, Tail(scores))

\* scored.sort_by(|a, b| b.score.cmp(&a.score)): a stable sort, so the
\* scores descend and equal scores keep their order.
sort_by_score_desc(scored) ==
    by_scores(scored, sorted_desc({scored[k].score : k \in 1..Len(scored)}))

\* deduplicate_fingerings: keep the first of every string pattern.
deduplicate_fingerings(fingerings) ==
    LET indexed == [k \in 1..Len(fingerings) |-> <<k, fingerings[k]>>]
        first == SelectSeq(indexed, LAMBDA e :
                    \A j \in 1..(e[1] - 1) : fingerings[j].fingering # e[2].fingering)
    IN  [k \in 1..Len(first) |-> first[k][2]]

\* Vec::truncate
truncate(v, len) == IF Len(v) > len THEN SubSeq(v, 1, len) ELSE v

\* The complete per-string assignments that the pruned search emits.
combinations(ch, instrument, options) ==
    generate_combinations_for_instrument(
        string_options(tuning(instrument), notes(ch), options.max_fret),
        Len(tuning(instrument)), instrument)

\* generate_fingerings; desc_maps as in iteration_order.
generate_fingerings(ch, instrument, options, desc_maps) ==
    LET kept == SelectSeq(combinations(ch, instrument, options),
                    LAMBDA f : passes_filter(f, ch, instrument, options))
        scored == [k \in 1..Len(kept) |->
                      scored_fingering(kept[k], ch, instrument, options,
                                       iteration_order(kept[k], desc_maps))]
    IN  truncate(deduplicate_fingerings(sort_by_score_desc(scored)), options.limit)

\* The candidates whose high-barre flag depends on the iteration order of
\* their fret_groups map: those on which its two extreme orders disagree.
order_dependent(ch, instrument, options) ==
    {f \in Range(SelectSeq(combinations(ch, instrument, options),
                    LAMBDA g : passes_filter(g, ch, instrument, options))) :
        has_high_barre_with_threshold(f, main_barre_threshold(instrument),
                                      sorted_asc(nonopen_frets(f)))
        # has_high_barre_with_threshold(f, main_barre_threshold(instrument),
                                        sorted_desc(nonopen_frets(f)))}

----------------------------------------------------------------------------
(* progression.rs: generate_progression.                                   *)

BASE_SCORE == 100
MOVEMENT_WEIGHT == 30
ANCHOR_BONUS == 20
BARRE_SIMILARITY_BONUS == 15
OPEN_POSITION_BONUS == 10
STRING_COUNT_SIMILARITY_BONUS == 5
DISTANCE_PENALTY == 5
BAND_MOVEMENT_WEIGHT == 40
BAND_DISTANCE_PENALTY == 8

ProgressionOptions(limit, max_fret_distance, candidates_per_chord, generator_options) ==
    [limit |-> limit,
     max_fret_distance |-> max_fret_distance,
     candidates_per_chord |-> candidates_per_chord,
     generator_options |-> generator_options]

\* calculate_finger_changes: <<movements, anchors>>.
calculate_finger_changes(from, to) ==
    LET compared == Min2(Len(from), Len(to))
        movements == Cardinality({i \in 1..compared :
                        \/ is_played(from[i]) /\ is_played(to[i]) /\ from[i] # to[i]
                        \/ is_played(from[i]) /\ ~is_played(to[i])
                        \/ ~is_played(from[i]) /\ is_played(to[i])})
        anchors == Cardinality({i \in 1..compared :
                        is_played(from[i]) /\ is_played(to[i]) /\ from[i] = to[i]})
    IN  <<movements, anchors>>

\* calculate_shape_similarity
calculate_shape_similarity(from, to, instrument) ==
    (IF has_barre(from) /\ has_barre(to) THEN BARRE_SIMILARITY_BONUS ELSE 0)
    + (IF is_open_position_for(from, instrument) /\ is_open_position_for(to, instrument)
       THEN OPEN_POSITION_BONUS ELSE 0)
    + (IF Abs(Cardinality({i \in 1..Len(from) : is_played(from[i])})
              - Cardinality({i \in 1..Len(to) : is_played(to[i])})) <= 1
       THEN STRING_COUNT_SIMILARITY_BONUS ELSE 0)

\* score_transition
score_transition(from_chord, to_chord, from_scored, to_scored, instrument, playing_context) ==
    LET movement_weight == IF playing_context = "Solo" THEN MOVEMENT_WEIGHT
                           ELSE BAND_MOVEMENT_WEIGHT
        distance_penalty == IF playing_context = "Solo" THEN DISTANCE_PENALTY
                            ELSE BAND_DISTANCE_PENALTY
        changes == calculate_finger_changes(from_scored.fingering, to_scored.fingering)
        distance == AsU8(Abs(to_scored.position - from_scored.position))
    IN  [from_chord |-> from_chord,
         to_chord |-> to_chord,
         from_fingering |-> from_scored,
         to_fingering |-> to_scored,
         score |-> BASE_SCORE
                   + (4 - changes[1]) * movement_weight
                   + changes[2] * ANCHOR_BONUS
                   + calculate_shape_similarity(from_scored.fingering,
                                                to_scored.fingering, instrument)
                   - distance * distance_penalty,
         finger_movements |-> changes[1],
         common_anchors |-> changes[2],
         position_distance |-> distance]

\* A skip test that lets every transition through.
within_any_distance(transition, options) == FALSE

\* The test of build_progression_sequence that skips a candidate.
exceeds_max_distance(transition, options) ==
    transition.position_distance > options.max_fret_distance

RECURSIVE best_transition_loop(_, _, _, _, _, _, _, _)
\* The `for to in &candidates[i]` loop of build_progression_sequence from
\* candidate k on; best_transition is <<>> for None, <<transition>> for
\* Some (the fingering chosen is the transition's to_fingering).
best_transition_loop(from_name, to_name, from, tos, k, instrument, options, best_transition) ==
    IF k > Len(tos) THEN best_transition
    ELSE LET transition == score_transition(from_name, to_name, from, tos[k], instrument,
                               options.generator_options.playing_context)
         IN  IF exceeds_max_distance(transition, options)
             THEN best_transition_loop(from_name, to_name, from, tos, k + 1,
                                       instrument, options, best_transition)
             ELSE IF best_transition = <<>> \/ transition.score > best_transition[1].score
             THEN best_transition_loop(from_name, to_name, from, tos, k + 1,
                                       instrument, options, <<transition>>)
             ELSE best_transition_loop(from_name, to_name, from, tos, k + 1,
                                       instrument, options, best_transition)

RECURSIVE chords_loop(_, _, _, _, _, _, _, _)
\* The `for i in 1..chords.len()` loop of build_progression_sequence, at
\* 0-based index i; <<>> when a chord has no transition within reach,
\* else <<selected_fingerings, transitions>>.
chords_loop(chords, chord_names, candidates, i, instrument, options, selected, transitions) ==
    IF i >= Len(chords) THEN <<selected, transitions>>
    ELSE LET best == best_transition_loop(chord_names[i], chord_names[i + 1],
                         selected[i], candidates[i + 1], 1, instrument, options, <<>>)
         IN  IF best = <<>> THEN <<>>
             ELSE chords_loop(chords, chord_names, candidates, i + 1, instrument, options,
                              Append(selected, best[1].to_fingering),
                              Append(transitions, best[1]))

\* build_progression_sequence with a total that also counts the score of
\* the starting fingering.
build_progression_sequence_counting_start(chords, chord_names, candidates, start_idx, instrument, options) ==
    LET built == chords_loop(chords, chord_names, candidates, 1, instrument, options,
                             <<candidates[1][start_idx + 1]>>, <<>>)
    IN  IF built = <<>> THEN <<>>
        ELSE LET total_score == candidates[1][start_idx + 1].score
                                + SumSeq([k \in 1..Len(built[2]) |-> built[2][k].score]) IN
             <<[chords |-> chord_names,
                fingerings |-> built[1],
                transitions |-> built[2],
                total_score |-> total_score,
                avg_transition_score |->
                    IF built[2] = <<>> THEN <<0, 1>> ELSE <<total_score, Len(built[2])>>]>>

\* build_progression_sequence; start_idx is 0-based; <<>> for None,
\* <<sequence>> for Some.  avg_transition_score is kept as the pair
\* <<total_score, number of transitions>> whose quotient it is.
build_progression_sequence(chords, chord_names, candidates, start_idx, instrument, options) ==
    LET built == chords_loop(chords, chord_names, candidates, 1, instrument, options,
                             <<candidates[1][start_idx + 1]>>, <<>>)
    IN  IF built = <<>> THEN <<>>
        ELSE LET total_score == SumSeq([k \in 1..Len(built[2]) |-> built[2][k].score]) IN
             <<[chords |-> chord_names,
                fingerings |-> built[1],
                transitions |-> built[2],
                total_score |-> total_score,
                avg_transition_score |->
                    IF built[2] = <<>> THEN <<0, 1>> ELSE <<total_score, Len(built[2])>>]>>

\* The filter_map over chord_names calls Chord::parse on every name; a
\* call that panics ends generate_progression with it.
progression_panics(chord_names) ==
    \E k \in 1..Len(chord_names) : Chord_parse(chord_names[k]).panic

\* chord_names.iter().filter_map(|name| Chord::parse(name).ok()).collect()
parsed_chords(chord_names) ==
    LET ok == SelectSeq(chord_names, LAMBDA name : Chord_parse(name).ok) IN
    [k \in 1..Len(ok) |-> Chord_parse(ok[k]).chord]

\* The options of the generate_fingerings call for each chord.
candidate_options(options) ==
    [options.generator_options EXCEPT !.limit = options.candidates_per_chord]

RECURSIVE starts_loop(_, _, _, _, _, _, _)
\* The `for start_idx in 0..start_limit` loop of generate_progression.
starts_loop(chords, chord_names, candidates, start_idx, start_limit, instrument, options) ==
    IF start_idx >= start_limit THEN <<>>
    ELSE build_progression_sequence(chords, chord_names, candidates, start_idx,
                                    instrument, options)
         \o starts_loop(chords, chord_names, candidates, start_idx + 1, start_limit,
                        instrument, options)

RECURSIVE by_total_scores(_, _)
by_total_scores(seqs, scores) ==
    IF scores = <<>> THEN <<>>
    ELSE SelectSeq(seqs, LAMBDA e : e.total_score = Head(scores))
         \o by_total_scores(seqs, Tail(scores))

\* The sequences left in the order of their starting fingerings.
in_start_order(seqs) == seqs

\* sequences.sort_by(|a, b| b.total_score.cmp(&a.total_score)): stable.
sort_by_total_score_desc(seqs) ==
    by_total_scores(seqs, sorted_desc({seqs[k].total_score : k \in 1..Len(seqs)}))

\* The `for chord in &chords` loop of generate_progression: the candidates
\* of every parsed chord.
progression_candidates(chords, instrument, options, desc_maps) ==
    [i \in 1..Len(chords) |->
        generate_fingerings(chords[i], instrument, candidate_options(options), desc_maps[i])]

\* generate_progression; desc_maps[i] is, for the generate_fingerings call
\* of the i-th parsed chord, the set described at iteration_order.
generate_progression(chord_names, instrument, options, desc_maps) ==
    LET chords == parsed_chords(chord_names)
        cands == progression_candidates(chords, instrument, options, desc_maps)
    IN  IF chords = <<>> THEN <<>>
        ELSE IF \E i \in 1..Len(cands) : cands[i] = <<>> THEN <<>>
        ELSE truncate(
                 sort_by_total_score_desc(
                     starts_loop(chords, chord_names, cands, 0,
                                 Min2(options.limit, Len(cands[1])),
                                 instrument, options)),
                 options.limit)

RECURSIVE desc_map_choices(_, _, _)
\* Every way the fret_groups maps of the calls can iterate: one set of
\* highest-first maps per chord.
desc_map_choices(chords, instrument, options) ==
    IF chords = <<>> THEN {<<>>}
    ELSE {<<dm>> \o rest :
            dm \in SUBSET order_dependent(Head(chords), instrument, options),
            rest \in desc_map_choices(Tail(chords), instrument, options)}

----------------------------------------------------------------------------
(* shapes.rs: the catalog of standard chord shapes.                        *)

\* StandardShape: a pattern slot is None (muted) or the number of frets
\* above the base fret.
StandardShape(name, pattern, count) ==
    [name |-> name, pattern |-> pattern, string_count |-> count]

\* StandardShape::matches: the base fret, or None.
matches(shape, fingering) ==
    IF Len(fingering) # shape.string_count THEN None
    ELSE
        LET zipped == 1..Min2(Len(fingering), Len(shape.pattern))
            bases == {fingering[i] : i \in {j \in zipped :
                          fingering[j] # Muted /\ shape.pattern[j] = 0}}
        IN  IF Cardinality(bases) > 1 THEN None
            ELSE
                LET base_fret == IF bases = {}
                                 THEN unwrap_or(min_fret(fingering), 0)
                                 ELSE CHOOSE b \in bases : TRUE
                IN  IF \A i \in zipped :
                           \/ fingering[i] = Muted /\ shape.pattern[i] = None
                           \/ /\ fingering[i] # Muted
                              /\ shape.pattern[i] # None
                              /\ fingering[i] = base_fret + shape.pattern[i]
                    THEN base_fret
                    ELSE None

\* ALL_SHAPES of the modules guitar, ukulele, mandolin and banjo.
ALL_SHAPES(module) ==
    CASE module = "guitar" ->
            <<StandardShape("Am", <<None, 0, 2, 2, 1, 0>>, 6),
              StandardShape("A", <<None, 0, 2, 2, 2, 0>>, 6),
              StandardShape("Em", <<0, 2, 2, 0, 0, 0>>, 6),
              StandardShape("E", <<0, 2, 2, 1, 0, 0>>, 6),
              StandardShape("C", <<None, 3, 2, 0, 1, 0>>, 6),
              StandardShape("G", <<3, 2, 0, 0, 0, 3>>, 6),
              StandardShape("D", <<None, None, 0, 2, 3, 2>>, 6),
              StandardShape("Dm", <<None, None, 0, 2, 3, 1>>, 6)>>
      [] module = "ukulele" ->
            <<StandardShape("A", <<2, 1, 0, 0>>, 4),
              StandardShape("Am", <<2, 0, 0, 0>>, 4),
              StandardShape("C", <<0, 0, 0, 3>>, 4),
              StandardShape("F", <<2, 0, 1, 0>>, 4),
              StandardShape("G", <<0, 2, 3, 2>>, 4),
              StandardShape("D", <<2, 2, 2, 0>>, 4),
              StandardShape("Dm", <<2, 2, 1, 0>>, 4),
              StandardShape("E", <<4, 4, 4, 2>>, 4),
              StandardShape("Em", <<0, 4, 3, 2>>, 4),
              StandardShape("Bb", <<3, 2, 1, 1>>, 4)>>
      [] module = "mandolin" ->
            <<StandardShape("G", <<0, 0, 2, 3>>, 4),
              StandardShape("C", <<0, 2, 3, 0>>, 4),
              StandardShape("D", <<2, 0, 0, 2>>, 4),
              StandardShape("A", <<2, 2, 4, 5>>, 4),
              StandardShape("E", <<0, 4, 4, 2>>, 4),
              StandardShape("F", <<3, 5, 5, 3>>, 4),
              StandardShape("Am", <<2, 2, 0, 0>>, 4),
              StandardShape("Em", <<0, 4, 0, 2>>, 4),
              StandardShape("Dm", <<2, 0, 0, 1>>, 4),
              StandardShape("Gm", <<0, 0, 2, 1>>, 4)>>
      [] module = "banjo" ->
            <<StandardShape("G", <<0, 0, 0, 0, 0>>, 5),
              StandardShape("C", <<None, 2, 0, 1, 2>>, 5),
              StandardShape("C-alt", <<0, 2, 0, 1, 2>>, 5),
              StandardShape("D", <<None, 0, 0, 2, 4>>, 5),
              StandardShape("D7", <<None, 0, 0, 2, 0>>, 5),
              StandardShape("Em", <<None, 0, 0, 0, 2>>, 5),
              StandardShape("Am", <<None, 2, 2, 0, 0>>, 5),
              StandardShape("F", <<None, 2, 1, 0, 0>>, 5),
              StandardShape("A", <<None, 0, 0, 0, 0>>, 5),
              StandardShape("Bm", <<None, 2, 2, 1, 0>>, 5),
              StandardShape("E", <<None, 2, 1, 0, 0>>, 5)>>

\* The fingering that the comment on each shape names, in the order of
\* ALL_SHAPES.
documented(module) ==
    CASE module = "guitar" ->
            <<<<Muted, 0, 2, 2, 1, 0>>, <<Muted, 0, 2, 2, 2, 0>>,
              <<0, 2, 2, 0, 0, 0>>, <<0, 2, 2, 1, 0, 0>>,
              <<Muted, 3, 2, 0, 1, 0>>, <<3, 2, 0, 0, 0, 3>>,
              <<Muted, Muted, 0, 2, 3, 2>>, <<Muted, Muted, 0, 2, 3, 1>>>>
      [] module = "ukulele" ->
            <<<<2, 1, 0, 0>>, <<2, 0, 0, 0>>, <<0, 0, 0, 3>>, <<2, 0, 1, 0>>,
              <<0, 2, 3, 2>>, <<2, 2, 2, 0>>, <<2, 2, 1, 0>>, <<4, 4, 4, 2>>,
              <<0, 4, 3, 2>>, <<3, 2, 1, 1>>>>
      [] module = "mandolin" ->
            <<<<0, 0, 2, 3>>, <<0, 2, 3, 0>>, <<2, 0, 0, 2>>, <<2, 2, 4, 5>>,
              <<0, 4, 4, 2>>, <<3, 5, 5, 3>>, <<2, 2, 0, 0>>, <<0, 4, 0, 2>>,
              <<2, 0, 0, 1>>, <<0, 0, 2, 1>>>>
      [] module = "banjo" ->
            <<<<0, 0, 0, 0, 0>>, <<Muted, 2, 0, 1, 2>>, <<0, 2, 0, 1, 2>>,
              <<Muted, 0, 0, 2, 4>>, <<Muted, 0, 0, 2, 0>>,
              <<Muted, 0, 0, 0, 2>>, <<Muted, 2, 2, 0, 0>>,
              <<Muted, 3, 2, 1, 1>>, <<Muted, 2, 2, 2, 2>>,
              <<Muted, 4, 4, 3, 2>>, <<Muted, 2, 1, 0, 0>>>>

\* find_matching_shape of a module: the name and base fret of the first
\* shape that matches; the empty tuple stands for None.
find_matching_shape(module, fingering) ==
    LET shapes == ALL_SHAPES(module)
        hits == {k \in 1..Len(shapes) : matches(shapes[k], fingering) # None}
    IN  IF hits = {} THEN <<>>
        ELSE <<shapes[SetMin(hits)].name, matches(shapes[SetMin(hits)], fingering)>>

----------------------------------------------------------------------------
(* SpecCapo: a caller holding an instrument applies a capo to it.          *)

MaxCustomFret == 26

MaxCapoArg == 14

\* Tunings handed to the builder: a low three-string one, and one whose
\* open strings lie at the top of the MIDI range (E9, G9).
CustomTunings ==
    {<<Note(G, 3), Note(C, 4), Note(E, 4)>>, <<Note(E, 9), Note(G, 9)>>}

CustomInstruments ==
    {build(t, <<0, m>>, 3) : t \in CustomTunings, m \in 0..MaxCustomFret}

CapoInstruments == {Guitar, Ukulele} \cup Presets \cup CustomInstruments

InitCapo ==
    /\ pc = "start"
    /\ inst \in CapoInstruments
    /\ capoFret \in 0..MaxCapoArg
    /\ capoResult = Idle
    /\ text = <<>> /\ parsed = NoParse /\ shown = <<>>
    /\ chord = Idle /\ opts = Idle /\ result1 = <<>> /\ result2 = <<>>
    /\ names = <<>> /\ popts = Idle /\ sequences = <<>> /\ generated = <<>>
    /\ given = <<>> /\ outcome = Idle

WithCapo ==
    /\ pc = "start"
    /\ capoResult' = with_capo(inst, capoFret)
    /\ pc' = "capoed"
    /\ UNCHANGED <<text, parsed, shown, inst, capoFret,
                   chord, opts, result1, result2, names, popts, sequences, generated,
                   given, outcome>>

NextCapo == WithCapo

SpecCapo == InitCapo /\ [][NextCapo]_vars

----------------------------------------------------------------------------
(* Claims about the capo (SpecCapo).                                        *)

\* C6: for an instrument with fret range [0, M], with_capo(fret) returns
\* Err(InvalidCapoPosition(fret, 0, max)) with max = min(12, M div 2)
\* exactly when fret > max, and a capoed instrument for every fret <= max.
C6_CapoBound ==
    (pc = "capoed" /\ inst.fret_range[1] = 0) =>
        LET M == inst.fret_range[2]
            max == IF M \div 2 < 12 THEN M \div 2 ELSE 12
        IN  /\ capoFret > max =>
                /\ ~capoResult.ok
                /\ capoResult.err = <<"InvalidCapoPosition", capoFret, 0, max>>
            /\ capoFret <= max =>
                /\ capoResult.ok
                /\ capoResult.value.kind = "Capoed"

C6_Witness ==
    /\ pc = "capoed"
    /\ inst.fret_range = <<0, 15>>
    /\ capoFret = 8
    /\ capoResult.err = <<"InvalidCapoPosition", 8, 0, 7>>

\* The open string `to` is the open string `from` raised by k semitones:
\* pitch class advanced by k mod 12, octave advanced by the carry.
RaisedBy(from, to, k) ==
    /\ to.pitch = (from.pitch + k) % 12
    /\ to.octave = from.octave + ((from.pitch + k) \div 12)

\* C7 as stated: when with_capo(fret) succeeds, every open string of the
\* result is the original open string raised by exactly fret semitones and
\* the result's fret range is (0, M - fret).
C7_CapoTransposes_Original ==
    (pc = "capoed" /\ capoResult.ok) =>
        /\ Len(capoResult.value.tuning) = Len(inst.tuning)
        /\ \A s \in 1..Len(inst.tuning) :
              RaisedBy(inst.tuning[s], capoResult.value.tuning[s], capoFret)
        /\ capoResult.value.fret_range = <<0, inst.fret_range[2] - capoFret>>

\* The MIDI number of a note (C-1 = 0, C4 = 60, G9 = 127).
MidiNumber(n) == (n.octave + 1) * 12 + n.pitch

\* C7 (amended): when with_capo(fret) succeeds, every open string whose
\* MIDI number plus fret is at most 127 is raised by exactly fret semitones
\* (fret 12 gives the same pitch class one octave higher); an open string
\* that would pass MIDI 127 becomes G9 (MIDI 127) instead; the result's
\* fret range is (0, M - fret).
C7_CapoTransposes ==
    (pc = "capoed" /\ capoResult.ok) =>
        /\ Len(capoResult.value.tuning) = Len(inst.tuning)
        /\ \A s \in 1..Len(inst.tuning) :
              IF MidiNumber(inst.tuning[s]) + capoFret <= 127
              THEN RaisedBy(inst.tuning[s], capoResult.value.tuning[s], capoFret)
              ELSE capoResult.value.tuning[s] = [pitch |-> 7, octave |-> 9]
        /\ capoResult.value.fret_range = <<0, inst.fret_range[2] - capoFret>>

C7_Witness ==
    /\ pc = "capoed"
    /\ capoResult.ok
    /\ capoFret = 12
    /\ inst.kind = "Guitar"
    /\ capoResult.value.tuning[1] = [pitch |-> 4, octave |-> 3]
    /\ capoResult.value.fret_range = <<0, 12>>

\* C8: a successful with_capo leaves everything except tuning and fret
\* range unchanged: the capoed instrument reports the same string count,
\* max_stretch, max_fingers, open_position_threshold, main_barre_threshold,
\* min_played_strings and bass_string_index as the original, and the
\* original's own tuning and fret range are the same after the call.
C8_CapoFrame ==
    /\ [](( pc = "capoed" /\ capoResult.ok) =>
            /\ string_count(capoResult.value) = string_count(inst)
            /\ max_stretch(capoResult.value) = max_stretch(inst)
            /\ max_fingers(capoResult.value) = max_fingers(inst)
            /\ open_position_threshold(capoResult.value) = open_position_threshold(inst)
            /\ main_barre_threshold(capoResult.value) = main_barre_threshold(inst)
            /\ min_played_strings(capoResult.value) = min_played_strings(inst)
            /\ bass_string_index(capoResult.value) = bass_string_index(inst))
    /\ [][pc' = "capoed" =>
            /\ tuning(inst') = tuning(inst)
            /\ fret_range(inst') = fret_range(inst)]_vars

C8_Witness ==
    /\ pc = "capoed"
    /\ capoResult.ok
    /\ capoFret = 5
    /\ inst.kind = "Ukulele"
    /\ min_played_strings(capoResult.value) = 1
    /\ capoResult.value.tuning # inst.tuning

\* C9: a capo at fret 0 is the identity: with_capo(0) succeeds and the
\* result answers every Instrument query (tuning, fret range, string count,
\* stretch, finger limit, thresholds, min played strings, bass string
\* index, max capo fret, string display names) as the original does.
C9_CapoZeroIdentity ==
    (pc = "capoed" /\ capoFret = 0) =>
        /\ capoResult.ok
        /\ tuning(capoResult.value) = tuning(inst)
        /\ fret_range(capoResult.value) = fret_range(inst)
        /\ string_count(capoResult.value) = string_count(inst)
        /\ max_stretch(capoResult.value) = max_stretch(inst)
        /\ max_fingers(capoResult.value) = max_fingers(inst)
        /\ open_position_threshold(capoResult.value) = open_position_threshold(inst)
        /\ main_barre_threshold(capoResult.value) = main_barre_threshold(inst)
        /\ min_played_strings(capoResult.value) = min_played_strings(inst)
        /\ bass_string_index(capoResult.value) = bass_string_index(inst)
        /\ max_capo_fret(capoResult.value) = max_capo_fret(inst)
        /\ string_names(capoResult.value) = string_names(inst)


----------------------------------------------------------------------------
(* SpecGen: a caller invokes generate_fingerings twice on the same chord,  *)
(* instrument and options.                                                 *)

MaxFretOpt == 3

MaxLimit == 3

\* A four-string instrument with a one-fret stretch, and the ukulele
\* tuning on a hand of two fingers.
TightInstruments ==
    {build(<<Note(D, 3), Note(G, 3), Note(B, 3), Note(E, 4)>>, <<0, 12>>, 1),
     Configurable("Two fingers", tuning(Ukulele), <<0, 12>>, 4, 2, 5, 2, 3, 1, <<>>)}

\* Necks shorter than MaxFretOpt: one built with two frets, and one of
\* four frets with a capo on the second.
ShortNecks ==
    {build(<<Note(D, 3), Note(G, 3), Note(B, 3), Note(E, 4)>>, <<0, 2>>, 1),
     with_capo(build(<<Note(D, 3), Note(G, 3), Note(B, 3), Note(E, 4)>>, <<0, 4>>, 1),
               2).value}

GenInstruments == {Guitar, Ukulele} \cup TightInstruments \cup ShortNecks

GenChords ==
    {Chord(C, "Major"), Chord(A, "Minor"), Chord(ASharp, "Sus4"), Chord(G, "Dominant7")}

\* A limit that lets the weaker candidates of a four-string instrument
\* through.
LongLimit == 20

GenOptions ==
    {GeneratorOptions(l, p, v, TRUE, MaxFretOpt, c) :
        l \in {1, MaxLimit}, p \in {None, 2},
        v \in {"None", "Full", "Core", "Jazzy"}, c \in {"Solo", "Band"}}
    \cup {GeneratorOptions(LongLimit, None, "None", TRUE, MaxFretOpt, "Solo")}

InitGen ==
    /\ pc = "start"
    /\ inst \in GenInstruments
    /\ chord \in GenChords
    /\ opts \in GenOptions
    /\ result1 = <<>> /\ result2 = <<>>
    /\ text = <<>> /\ parsed = NoParse /\ shown = <<>>
    /\ capoFret = 0 /\ capoResult = Idle
    /\ names = <<>> /\ popts = Idle /\ sequences = <<>> /\ generated = <<>>
    /\ given = <<>> /\ outcome = Idle

\* One invocation: result2 holds its return value, result1 that of the
\* invocation before.
Generate ==
    /\ pc \in {"start", "once"}
    /\ \E desc_maps \in SUBSET order_dependent(chord, inst, opts) :
          result2' = generate_fingerings(chord, inst, opts, desc_maps)
    /\ result1' = result2
    /\ pc' = IF pc = "start" THEN "once" ELSE "twice"
    /\ UNCHANGED <<text, parsed, shown, inst, capoFret, capoResult,
                   chord, opts, names, popts, sequences, generated, given, outcome>>

NextGen == Generate

SpecGen == InitGen /\ [][NextGen]_vars

----------------------------------------------------------------------------
(* Claims about generate_fingerings.                                       *)

Returned(r) == {r[k].fingering : k \in 1..Len(r)}

PlayedStrings(f) == Cardinality({i \in 1..Len(f) : f[i] # Muted})

SpanOfNonOpen(f) ==
    LET fretted == {f[i] : i \in {k \in 1..Len(f) : f[k] > 0}} IN
    IF fretted = {} THEN 0 ELSE SetMax(fretted) - SetMin(fretted)

\* C1: every fingering that generate_fingerings returns has a fret span
\* (highest minus lowest non-open fret) of at most the instrument's
\* max_stretch, needs at most max_fingers fingers by min_fingers_required,
\* and plays at least min_played_strings strings.
C1_ReturnedArePlayable ==
    pc \in {"once", "twice"} =>
        \A f \in Returned(result2) :
            /\ SpanOfNonOpen(f) <= max_stretch(inst)
            /\ min_fingers_required(f) <= max_fingers(inst)
            /\ PlayedStrings(f) >= min_played_strings(inst)

\* An invocation that returned fingerings although the search had produced
\* a candidate needing more fingers than the instrument has.
C1_Witness ==
    /\ pc = "once"
    /\ result2 # <<>>
    /\ \E f \in Range(combinations(chord, inst, opts)) :
          min_fingers_required(f) > max_fingers(inst)

\* C2: two invocations of generate_fingerings on the same chord, instrument
\* and options return the same ordered list: the same fingerings with the
\* same scores in the same order, whatever order an unordered container
\* iterates in.
C2_Deterministic == pc = "twice" => result1 = result2

\* C3: the list generate_fingerings returns is sorted by score, never
\* ascending from one entry to the next, and has at most options.limit
\* entries.
C3_SortedAndLimited ==
    pc \in {"once", "twice"} =>
        /\ Len(result2) <= opts.limit
        /\ \A k \in 1..(Len(result2) - 1) : result2[k].score >= result2[k + 1].score

\* An invocation that filled the limit with entries of falling score and
\* left candidates out.
C3_Witness ==
    /\ pc = "once"
    /\ Len(result2) = opts.limit
    /\ Len(result2) >= 2
    /\ result2[1].score > result2[Len(result2)].score
    /\ \E f \in Range(combinations(chord, inst, opts)) :
          passes_filter(f, chord, inst, opts) /\ f \notin Returned(result2)

----------------------------------------------------------------------------
(* SpecProg: a caller asks generate_progression for the sequences of a     *)
(* list of chord names.                                                    *)

MaxChords == 3

MaxDistance == 1

\* Two names that parse, one that does not, and one that begins with a
\* character of several bytes.
ChordNames == {<<"A", "m">>, <<"B", "b", "s", "u", "s", "4">>, <<"H">>, <<Flat>>}

ProgInstruments ==
    {Ukulele,
     build(<<Note(D, 3), Note(G, 3), Note(B, 3), Note(E, 4)>>, <<0, 12>>, 1)}

ProgOptions ==
    {ProgressionOptions(l, m, 3, GeneratorOptions(10, None, "None", TRUE, MaxFretOpt, c)) :
        l \in {1, 2}, m \in {0, MaxDistance}, c \in {"Solo", "Band"}}
    \cup {ProgressionOptions(2, MaxDistance, 3,
                              GeneratorOptions(10, None, "Full", TRUE, MaxFretOpt, "Solo"))}

InitProg ==
    /\ pc = "start"
    /\ names \in SeqsUpTo(ChordNames, MaxChords)
    /\ inst \in ProgInstruments
    /\ popts \in ProgOptions
    /\ sequences = <<>>
    /\ generated = <<>>
    /\ given = <<>> /\ outcome = Idle
    /\ text = <<>> /\ parsed = NoParse /\ shown = <<>>
    /\ capoFret = 0 /\ capoResult = Idle
    /\ chord = Idle /\ opts = Idle /\ result1 = <<>> /\ result2 = <<>>

GenerateProgression ==
    /\ pc = "start"
    /\ IF progression_panics(names)
       THEN pc' = "panicked" /\ UNCHANGED <<sequences, generated>>
       ELSE /\ \E desc_maps \in desc_map_choices(parsed_chords(names), inst,
                                                  candidate_options(popts)) :
                 /\ sequences' = generate_progression(names, inst, popts, desc_maps)
                 /\ generated' = progression_candidates(parsed_chords(names), inst,
                                                         popts, desc_maps)
            /\ pc' = "done"
    /\ UNCHANGED <<text, parsed, shown, inst, capoFret, capoResult,
                   chord, opts, result1, result2, names, popts, given, outcome>>

NextProg == GenerateProgression

SpecProg == InitProg /\ [][NextProg]_vars

----------------------------------------------------------------------------
(* Claims about generate_progression.                                      *)

Transitions == UNION {Range(sequences[k].transitions) : k \in 1..Len(sequences)}

\* C10: in every sequence that generate_progression returns, every
\* transition's position_distance is the absolute difference of the
\* positions of its to and from fingerings, and is at most
\* options.max_fret_distance.
C10_TransitionsWithinDistance ==
    pc = "done" =>
        \A t \in Transitions :
            /\ t.position_distance = Abs(t.to_fingering.position - t.from_fingering.position)
            /\ t.position_distance <= popts.max_fret_distance

\* A returned sequence with a transition that moves the hand as far as the
\* options allow.
C10_Witness ==
    /\ pc = "done"
    /\ \E t \in Transitions :
          t.position_distance > 0 /\ t.position_distance = popts.max_fret_distance


\* The chords of the names that parse.
ParsedNames == SelectSeq(names, LAMBDA name : Chord_parse(name).ok)

\* Whether generation has no candidate for chord ch; the iteration order of
\* a map changes scores, never which fingerings pass the filter.
ZeroCandidates(ch) == generate_fingerings(ch, inst, candidate_options(popts), {}) = <<>>

\* C11: generate_progression returns an empty list, raising no error,
\* whenever the chord list is empty or holds no name that parses, or some
\* chord of the list has no generation candidate, however many the other
\* chords have.
C11_EmptyWithoutError ==
    (/\ pc # "start"
     /\ \/ \A k \in 1..Len(names) : ~Chord_parse(names[k]).ok
        \/ \E k \in 1..Len(names) :
              Chord_parse(names[k]).ok /\ ZeroCandidates(Chord_parse(names[k]).chord))
    => pc = "done" /\ sequences = <<>>

\* The same statement restricted to the lists on which every call of
\* Chord::parse returns.
EmptyWhenParseReturns ==
    (/\ pc # "start"
     /\ ~progression_panics(names)
     /\ \/ \A k \in 1..Len(names) : ~Chord_parse(names[k]).ok
        \/ \E k \in 1..Len(names) :
              Chord_parse(names[k]).ok /\ ZeroCandidates(Chord_parse(names[k]).chord))
    => pc = "done" /\ sequences = <<>>


\* C12: names that fail to parse count as absent: every returned sequence
\* has one chord label and one fingering per name that parsed, in input
\* order, and every transition is labelled with the names of the two
\* chords whose fingerings it connects.
C12_UnparsedNamesAbsent ==
    pc = "done" =>
        \A k \in 1..Len(sequences) :
            /\ sequences[k].chords = ParsedNames
            /\ Len(sequences[k].fingerings) = Len(ParsedNames)
            /\ \A i \in 1..Len(sequences[k].transitions) :
                  /\ sequences[k].transitions[i].from_chord = ParsedNames[i]
                  /\ sequences[k].transitions[i].to_chord = ParsedNames[i + 1]


\* The reference beam search of the specification, over the candidate
\* lists the call generated.  An entry is a path of fingerings with the
\* sum of its transition scores.
BeamWidth == Max2(10, 3 * popts.limit)

\* Every extension of every entry of the beam by a candidate of the next
\* chord that lies within max_fret_distance.
BeamExtend(beam, tos) ==
    LET pairs == [idx \in 1..(Len(beam) * Len(tos)) |->
                     LET e == beam[((idx - 1) \div Len(tos)) + 1]
                         to == tos[((idx - 1) % Len(tos)) + 1]
                         tr == score_transition(<<>>, <<>>, e.fingerings[Len(e.fingerings)],
                                   to, inst, popts.generator_options.playing_context)
                     IN  [fingerings |-> Append(e.fingerings, to),
                          total_score |-> e.total_score + tr.score,
                          distance |-> tr.position_distance]]
        near == SelectSeq(pairs, LAMBDA e : e.distance <= popts.max_fret_distance)
    IN  [k \in 1..Len(near) |->
            [fingerings |-> near[k].fingerings, total_score |-> near[k].total_score]]

RECURSIVE BeamSteps(_, _)
\* The beam after the chords from the i-th on; empty as soon as a step
\* leaves no entry.
BeamSteps(beam, i) ==
    IF i > Len(generated) THEN beam
    ELSE LET next == truncate(sort_by_total_score_desc(BeamExtend(beam, generated[i])),
                              BeamWidth)
         IN  IF next = <<>> THEN <<>> ELSE BeamSteps(next, i + 1)

\* The sequences of the reference beam search: the best `limit` entries.
BeamSearch ==
    IF generated = <<>> THEN <<>>
    ELSE truncate(
             BeamSteps([k \in 1..Len(generated[1]) |->
                           [fingerings |-> <<generated[1][k]>>, total_score |-> 0]], 2),
             popts.limit)

\* C13: generate_progression returns the sequences of the reference beam
\* search: as many of them, with the same total scores in the same order
\* (which of several paths of equal total score is returned is left open).
C13_SameAsBeamSearch ==
    pc = "done" =>
        [k \in 1..Len(sequences) |-> sequences[k].total_score]
            = [k \in 1..Len(BeamSearch) |-> BeamSearch[k].total_score]


\* Every name of the list parsed.
AllNamesParse ==
    pc = "done" /\ \A k \in 1..Len(names) : Chord_parse(names[k]).ok

\* C14: for n >= 1 names that all parse, every returned sequence has n
\* chord labels, n fingerings and n - 1 transitions; transition i leads
\* from fingerings[i] to fingerings[i + 1]; fingerings[i] is one of the
\* candidates generated for chord i; and total_score is the sum of the
\* transition scores (0 for a single chord).
C14_SequenceShape ==
    (AllNamesParse /\ Len(names) >= 1) =>
        \A k \in 1..Len(sequences) :
            LET sq == sequences[k]
                n == Len(names)
            IN  /\ Len(sq.chords) = n
                /\ Len(sq.fingerings) = n
                /\ Len(sq.transitions) = n - 1
                /\ \A i \in 1..(n - 1) :
                      /\ sq.transitions[i].from_fingering = sq.fingerings[i]
                      /\ sq.transitions[i].to_fingering = sq.fingerings[i + 1]
                /\ \A i \in 1..n :
                      \E c \in 1..Len(generated[i]) : generated[i][c] = sq.fingerings[i]
                /\ sq.total_score
                      = SumSeq([i \in 1..Len(sq.transitions) |-> sq.transitions[i].score])
                /\ (n = 1 => sq.total_score = 0)

\* A progression of MaxChords names came back with two sequences.
C14_Witness ==
    /\ AllNamesParse
    /\ Len(names) = MaxChords
    /\ Len(sequences) = 2
    /\ sequences[1].total_score > 0


\* C15: generate_progression returns at most options.limit sequences, in
\* order of non-increasing total_score.
C15_LimitedAndSorted ==
    pc = "done" =>
        /\ Len(sequences) <= popts.limit
        /\ \A k \in 1..(Len(sequences) - 1) :
              sequences[k].total_score >= sequences[k + 1].total_score

\* Two sequences came back, the better one built from the second starting
\* fingering.
C15_Witness ==
    /\ pc = "done"
    /\ Len(sequences) = 2
    /\ sequences[1].total_score > sequences[2].total_score
    /\ sequences[1].fingerings[1] = generated[1][2]


\* The class of a fingering for the chord of the run: Full when it sounds
\* every chord tone, Core when it sounds every core tone but not every
\* chord tone, Jazzy otherwise.
ClassOf(f) ==
    LET pitches == unique_pitch_classes(f, inst) IN
    IF Range(notes(chord)) \subseteq pitches THEN "Full"
    ELSE IF Range(core_notes(chord)) \subseteq pitches THEN "Core"
    ELSE "Jazzy"

\* C16: when options.voicing_type requests a class, every returned
\* fingering is of that class.
C16_OnlyRequestedVoicing ==
    (pc # "start" /\ opts.voicing_type # "None") =>
        \A k \in 1..Len(result2) : ClassOf(result2[k].fingering) = opts.voicing_type


\* The lowest sounding pitch of a fingering on the instrument of the run:
\* the minimum over the played strings of the open string's absolute
\* pitch (12 * octave + pitch class) plus the fret.
LowestPitch(f) ==
    SetMin({12 * tuning(inst)[i].octave + tuning(inst)[i].pitch + f[i] :
               i \in {k \in 1..Len(f) : f[k] # Muted}})

\* C17: for every returned fingering, has_root_in_bass is true exactly
\* when the lowest sounding pitch has the pitch class of the chord's root.
C17_RootInBassIsLowestPitch ==
    pc # "start" =>
        \A k \in 1..Len(result2) :
            result2[k].has_root_in_bass
                <=> (LowestPitch(result2[k].fingering) % 12 = chord.root)


\* The option lists of the run, one per string.
OptionLists == string_options(tuning(inst), notes(chord), opts.max_fret)

RECURSIVE Assignments(_)
\* Every complete assignment of the first k strings: one option per string
\* from that string's option list.
Assignments(k) ==
    IF k = 0 THEN {<<>>}
    ELSE {Append(a, o) : a \in Assignments(k - 1), o \in Range(OptionLists[k])}

\* The assignments that play enough strings within the stretch.
WithinLimits ==
    {a \in Assignments(Len(tuning(inst))) :
        /\ PlayedStrings(a) >= min_played_strings(inst)
        /\ SpanOfNonOpen(a) <= max_stretch(inst)}

\* C19: the pruned depth-first search emits exactly the complete
\* assignments that play at least min_played strings with a span over the
\* non-open frets of at most max_stretch, each of them exactly once.
C19_PrunedSearchExact ==
    pc # "start" =>
        LET emitted == combinations(chord, inst, opts) IN
        /\ Range(emitted) = WithinLimits
        /\ Len(emitted) = Cardinality(WithinLimits)

\* A run in which both prunings cut assignments off and some were emitted.
C19_Witness ==
    /\ pc # "start"
    /\ \E a \in Assignments(Len(tuning(inst))) : PlayedStrings(a) < min_played_strings(inst)
    /\ \E a \in Assignments(Len(tuning(inst))) :
          /\ PlayedStrings(a) >= min_played_strings(inst)
          /\ SpanOfNonOpen(a) > max_stretch(inst)
    /\ WithinLimits # {}
    /\ Len(combinations(chord, inst, opts)) > 1


----------------------------------------------------------------------------
(* SpecScore: the scoring functions applied to given fingerings.  A call  *)
(* of score_fingering is made for two candidates of one invocation of     *)
(* generate_fingerings; a call of playability_score_for for one fingering. *)

ManyStrings == 14

\* A custom instrument of ManyStrings strings tuned to the tones of C
\* major, as ConfigurableInstrument::builder() accepts it.
OpenTuned ==
    build([i \in 1..ManyStrings |->
              Note(<<C, E, G>>[((i - 1) % 3) + 1], 1 + ((i - 1) \div 3))],
          <<0, 12>>, 4)

\* The open strings of OpenTuned with up to two muted at either end.
OpenShapes ==
    {[i \in 1..ManyStrings |-> IF i <= a \/ i > ManyStrings - b THEN Muted ELSE 0] :
        a \in 0..2, b \in 0..2}

\* Some C major shapes of the guitar.
GuitarShapes ==
    {<<Muted, 3, 2, 0, 1, 0>>, <<Muted, 3, 2, 0, 1, Muted>>, <<Muted, 3, 2, 0, Muted, Muted>>,
     <<0, 3, 2, 0, 1, 0>>, <<3, 3, 2, 0, 1, 0>>, <<Muted, Muted, 2, 0, 1, 0>>,
     <<Muted, 3, 5, 5, 5, 3>>, <<Muted, Muted, Muted, 0, 1, 0>>,
     <<8, 10, 10, 9, 8, 8>>, <<Muted, Muted, 10, 12, 13, 12>>,
     <<Muted, 3, Muted, 0, 1, 0>>, <<Muted, 3, 2, Muted, Muted, Muted>>}

\* Some G7 shapes of the guitar: full, core and jazzy voicings.
SeventhShapes ==
    {<<3, 2, 0, 0, 0, 1>>, <<Muted, Muted, Muted, 0, 0, 1>>, <<Muted, Muted, 0, 0, 0, Muted>>,
     <<3, 2, Muted, 0, 0, 1>>, <<3, 5, 3, 4, 3, 3>>, <<Muted, 10, 9, 10, Muted, Muted>>,
     <<Muted, Muted, 12, 12, 12, Muted>>}

\* Two candidates of one invocation: both pass its filter.
PairCases ==
    {c \in [inst : {OpenTuned}, chord : {Chord(C, "Major")},
            opts : {GeneratorOptions(10, None, "None", TRUE, 0, ctx) : ctx \in {"Solo", "Band"}},
            given : {<<f1, f2>> : f1 \in OpenShapes, f2 \in OpenShapes}]
          \cup
          [inst : {Guitar}, chord : {Chord(C, "Major")},
           opts : {GeneratorOptions(10, p, "None", TRUE, 13, ctx) :
                      p \in {None, 7}, ctx \in {"Solo", "Band"}},
           given : {<<f1, f2>> : f1 \in GuitarShapes, f2 \in GuitarShapes}]
          \cup
          [inst : {Guitar}, chord : {Chord(G, "Dominant7")},
           opts : {GeneratorOptions(10, p, "None", TRUE, 13, ctx) :
                      p \in {None, 7}, ctx \in {"Solo", "Band"}},
           given : {<<f1, f2>> : f1 \in SeventhShapes, f2 \in SeventhShapes}] :
        \A k \in 1..2 : passes_filter(c.given[k], c.chord, c.inst, c.opts)}

\* The string states of the single fingerings.
ShapeStates == {Muted, 0, 1, 2, 4, 9}

\* A four-string instrument whose hand has no finger to spare.
NoFingers == Configurable("No fingers", tuning(Ukulele), <<0, 12>>, 4, 0, 5, 2, 1, 1, <<>>)

\* Barre shapes of the guitar, from the tests of fingering.rs.
BarreShapes ==
    {<<4, 4, 4, 4, 4, 4>>, <<4, 4, 4, 4, 4, 5>>, <<4, 6, 4, 4, 4, 4>>, <<4, 2, 4, 4, 0, 4>>,
     <<4, 2, 4, 4, 4, 4>>, <<1, 3, 3, 2, 1, 1>>, <<1, 2, 3, 4, 5, 6>>, <<Muted, 3, 2, 0, 1, 0>>,
     <<3, 3, 5, 5, 0, 0>>, <<5, 5, 3, 3, Muted, Muted>>}

SingleCases ==
    [inst : {Ukulele, NoFingers} \cup TightInstruments, chord : {Idle}, opts : {Idle},
     given : {<<f>> : f \in [1..4 -> ShapeStates]}]
    \cup [inst : {Guitar}, chord : {Idle}, opts : {Idle},
          given : {<<f>> : f \in BarreShapes}]

InitScore ==
    /\ pc = "start"
    /\ \E c \in PairCases \cup SingleCases :
          inst = c.inst /\ chord = c.chord /\ opts = c.opts /\ given = c.given
    /\ outcome = Idle
    /\ result1 = <<>> /\ result2 = <<>>
    /\ text = <<>> /\ parsed = NoParse /\ shown = <<>>
    /\ capoFret = 0 /\ capoResult = Idle
    /\ names = <<>> /\ popts = Idle /\ sequences = <<>> /\ generated = <<>>

\* The filter_map closure for two candidates: the i32 that score_fingering
\* returns for each and the ScoredFingering stored for it.
Score ==
    /\ pc = "start"
    /\ Len(given) = 2
    /\ \E o1 \in map_orders(given[1]), o2 \in map_orders(given[2]) :
          outcome' =
              [k \in 1..2 |->
                  LET order == IF k = 1 THEN o1 ELSE o2 IN
                  [signed |-> score_fingering(given[k], inst, opts,
                                  scorer_options(given[k], chord, inst), order),
                   stored |-> scored_fingering(given[k], chord, inst, opts, order)]]
    /\ pc' = "scored"
    /\ UNCHANGED <<text, parsed, shown, inst, capoFret, capoResult, chord, opts,
                   result1, result2, names, popts, sequences, generated, given>>

\* One call of playability_score_for.
Rate ==
    /\ pc = "start"
    /\ Len(given) = 1
    /\ \E order \in map_orders(given[1]) :
          outcome' = playability_score_for(given[1], inst, order)
    /\ pc' = "rated"
    /\ UNCHANGED <<text, parsed, shown, inst, capoFret, capoResult, chord, opts,
                   result1, result2, names, popts, sequences, generated, given>>

\* One call of has_high_barre_for.
HighBarre ==
    /\ pc = "start"
    /\ Len(given) = 1
    /\ \E order \in map_orders(given[1]) :
          outcome' = has_high_barre_for(given[1], inst, order)
    /\ pc' = "barre"
    /\ UNCHANGED <<text, parsed, shown, inst, capoFret, capoResult, chord, opts,
                   result1, result2, names, popts, sequences, generated, given>>

NextScore == Score \/ Rate \/ HighBarre

SpecScore == InitScore /\ [][NextScore]_vars

\* C18: the stored score is max(0, S) for the signed sum S of the scoring
\* terms, so of two candidates of one invocation the one with the greater
\* non-negative S has the greater stored score.
C18_StoredScoreKeepsOrder ==
    pc = "scored" =>
        /\ \A k \in 1..2 : outcome[k].stored.score = Max2(0, outcome[k].signed)
        /\ (outcome[1].signed > outcome[2].signed /\ outcome[2].signed >= 0)
              => outcome[1].stored.score > outcome[2].stored.score

\* C20: playability_score_for returns a value in 0..100, and 0 whenever
\* the fret span exceeds max_stretch or min_fingers_required exceeds
\* max_fingers.
C20_PlayabilityRange ==
    pc = "rated" =>
        /\ outcome \in 0..100
        /\ (\/ fret_span(given[1]) > max_stretch(inst)
            \/ min_fingers_required(given[1]) > max_fingers(inst))
              => outcome = 0

\* A fingering within the stretch that needs more fingers than the hand
\* has was rated.
C20_Witness ==
    /\ pc = "rated"
    /\ fret_span(given[1]) <= max_stretch(inst)
    /\ min_fingers_required(given[1]) > max_fingers(inst)
    /\ max_fingers(inst) > 0


\* The number of open strings lying between the first and the last
\* non-open fretted string of the given fingering.
OpensBetween ==
    LET f == given[1]
        pressed == {i \in 1..Len(f) : f[i] >= 1}
    IN  Cardinality({i \in 1..Len(f) :
            /\ f[i] = 0
            /\ \E a \in pressed : a < i
            /\ \E b \in pressed : b > i})

\* The sum of the playability terms of the given fingering, with the
\* high-barre term applied or not.
PlayabilitySum(high_barre) ==
    LET f == given[1]
        pressed == {f[i] : i \in {k \in 1..Len(f) : f[k] >= 1}}
        played == {f[i] : i \in {k \in 1..Len(f) : f[k] # Muted}}
        muted == Cardinality({i \in 1..Len(f) : f[i] = Muted})
    IN  100 - 10 * SpanOfNonOpen(f)
        + finger_usage_term(min_fingers_required(f), max_fingers(inst))
        - (IF high_barre THEN 40 ELSE 0)
        - 15 * OpensBetween
        + (IF /\ 0 \in played
              /\ SetMax(played) <= open_position_threshold(inst)
              /\ OpensBetween = 0
           THEN 10 ELSE 0)
        - 2 * (IF pressed = {} THEN 0 ELSE Max2(0, SetMin(pressed) - 7))
        - 5 * Max2(0, muted - 1)

\* C21: for a playable fingering, playability_score_for is the sum of the
\* terms 100 - 10*span + finger usage - 40 for a high barre - 15 per
\* interior open string + 10 for an open position without interior open
\* strings - 2 per fret of the lowest non-open fret above 7 - 5 per muted
\* string beyond the first, brought into 0..100.
C21_PlayabilityTerms ==
    (pc = "rated" /\ is_playable_for(given[1], inst)) =>
        \E order \in map_orders(given[1]) :
            outcome = Max2(0, Min2(100, PlayabilitySum(
                          has_high_barre_with_threshold(given[1],
                              main_barre_threshold(inst), order))))

\* A playable fingering with an open string between two fretted ones, whose
\* lowest fretted position is above fret 7, was rated above 0.
C21_Witness ==
    /\ pc = "rated"
    /\ is_playable_for(given[1], inst)
    /\ OpensBetween > 0
    /\ min_fret(given[1]) > 7
    /\ outcome > 0

\* The finger-usage term of the given fingering on the instrument.
FingerTerm(fingers) == finger_usage_term(fingers, max_fingers(inst))

RunsOfPressedStrings ==
    LET f == given[1] IN
    Cardinality({i \in 1..Len(f) : f[i] >= 1 /\ (i = 1 \/ f[i - 1] # f[i])})

\* C23: min_fingers_required is the sum over the non-zero frets of the
\* number of maximal runs of adjacent strings pressed at that fret: 444444
\* needs 1 finger, 444445 2, 464444 3 and 424404 4.
C23_FingersAreRuns ==
    pc = "rated" =>
        /\ min_fingers_required(given[1]) = RunsOfPressedStrings
        /\ given[1] = <<4, 4, 4, 4, 4, 4>> => min_fingers_required(given[1]) = 1
        /\ given[1] = <<4, 4, 4, 4, 4, 5>> => min_fingers_required(given[1]) = 2
        /\ given[1] = <<4, 6, 4, 4, 4, 4>> => min_fingers_required(given[1]) = 3
        /\ given[1] = <<4, 2, 4, 4, 0, 4>> => min_fingers_required(given[1]) = 4

\* 424404 was rated on the guitar.
C23_Witness ==
    /\ pc = "rated"
    /\ given[1] = <<4, 2, 4, 4, 0, 4>>
    /\ outcome \in 0..100


\* The length of the run of adjacent strings pressed at one fret that
\* starts at string i of the given fingering (0 if string i starts none).
RunFrom(i) ==
    LET f == given[1] IN
    IF f[i] < 1 \/ (i > 1 /\ f[i - 1] = f[i]) THEN 0
    ELSE SetMax({n \in 1..(Len(f) - i + 1) : \A k \in i..(i + n - 1) : f[k] = f[i]})

\* The length of the longest barre, and the frets at which a barre of that
\* length lies.
LongestBarre == SetMax({RunFrom(i) : i \in 1..Len(given[1])})

LongestBarreFrets ==
    {given[1][i] : i \in {k \in 1..Len(given[1]) : RunFrom(k) = LongestBarre /\ RunFrom(k) > 0}}

\* C24: has_high_barre_for is true exactly when the longest barre is at
\* least main_barre_threshold strings long and lies strictly above the
\* lowest non-zero fret of the fingering; with the longest barre at the
\* lowest fret the result is false, whatever lies above it.
C24_HighBarreIsLongestBarre ==
    pc = "barre" =>
        (outcome <=> /\ LongestBarre >= 1
                     /\ LongestBarre >= main_barre_threshold(inst)
                     /\ \A fret \in LongestBarreFrets : fret > min_fret(given[1]))

\* The same statement for the fingerings whose longest barre lies at one
\* fret only.
HighBarreWithoutTie ==
    (pc = "barre" /\ Cardinality(LongestBarreFrets) <= 1) =>
        (outcome <=> /\ LongestBarre >= 1
                     /\ LongestBarre >= main_barre_threshold(inst)
                     /\ \A fret \in LongestBarreFrets : fret > min_fret(given[1]))


\* The statement of C24 read the other way for barres of equal length: a
\* longest barre above the lowest fret suffices.
HighBarreTieCountsAsHigh ==
    pc = "barre" =>
        (outcome <=> /\ LongestBarre >= 1
                     /\ LongestBarre >= main_barre_threshold(inst)
                     /\ \E fret \in LongestBarreFrets : fret > min_fret(given[1]))


\* The muted strings of the k-th given fingering that lie between its
\* first and its last played string.
MutedBetween(k) ==
    LET f == given[k] IN
    Cardinality({i \in 1..Len(f) :
        /\ f[i] = Muted
        /\ \E a \in 1..(i - 1) : f[a] # Muted
        /\ \E b \in (i + 1)..Len(f) : f[b] # Muted})

\* The context terms of the k-th candidate, from the attributes stored
\* with it.
ContextTerms(k) ==
    LET f == given[k]
        c == outcome[k].stored
        preferred == opts.preferred_position
        toward == 3 * Abs(c.position - preferred)
    IN  IF opts.playing_context = "Solo"
        THEN (IF c.has_root_in_bass THEN 30 ELSE 0)
             + (IF c.voicing_type = "Full" THEN 20
                ELSE IF c.voicing_type = "Core" THEN 5 ELSE 0)
             - (IF c.voicing_type = "Jazzy" /\ ~c.has_root_in_bass THEN 15 ELSE 0)
             - (IF preferred # None THEN toward ELSE 5 * Max2(0, c.position - 5))
        ELSE (IF c.has_root_in_bass THEN 5 ELSE 0)
             + (IF c.voicing_type = "Full" THEN 5 ELSE 20)
             + (IF f[1] = Muted /\ (Len(f) < 2 \/ f[2] = Muted) THEN 10 ELSE 0)
             - (IF preferred # None THEN toward
                ELSE 3 * (Max2(0, 3 - c.position) + Max2(0, c.position - 10)))

CoversAdjacentStrings(f) ==
    \E i \in 1..(Len(f) - 1) : f[i] >= 1 /\ f[i + 1] = f[i]

\* The score of transition t by the terms of C26; both_barre tells whether
\* both of its fingerings use a barre.
TransitionTerms(t, both_barre) ==
    LET from == t.from_fingering.fingering
        to == t.to_fingering.fingering
        both == 1..Min2(Len(from), Len(to))
        movements == Cardinality({i \in both : from[i] # to[i]})
        anchors == Cardinality({i \in both : from[i] # Muted /\ from[i] = to[i]})
        band == popts.generator_options.playing_context = "Band"
    IN  100 + (4 - movements) * (IF band THEN 40 ELSE 30)
        + 20 * anchors
        + (IF both_barre THEN 15 ELSE 0)
        + (IF is_open_position_for(from, inst) /\ is_open_position_for(to, inst)
           THEN 10 ELSE 0)
        + (IF Abs(PlayedStrings(from) - PlayedStrings(to)) <= 1 THEN 5 ELSE 0)
        - (IF band THEN 8 ELSE 5) * Abs(t.to_fingering.position - t.from_fingering.position)

\* C26: the score of every transition is 100 + (4 - movements) * W
\* + 20 * anchors + 15 if both fingerings use a barre (one finger over two
\* or more adjacent strings at one fret) + 10 if both are in open position
\* + 5 if their played-string counts differ by at most 1 - D * the distance
\* of their positions, with (W, D) = (30, 5) in Solo and (40, 8) in Band.
C26_TransitionTerms ==
    pc = "done" =>
        \A k \in 1..Len(sequences) : \A i \in 1..Len(sequences[k].transitions) :
            LET t == sequences[k].transitions[i] IN
            t.score = TransitionTerms(t,
                          /\ CoversAdjacentStrings(t.from_fingering.fingering)
                          /\ CoversAdjacentStrings(t.to_fingering.fingering))

\* The same sum with the barre test of the code: two or more strings at
\* the lowest non-open fret, adjacent or not.
TransitionTermsLowestFretBarre ==
    pc = "done" =>
        \A k \in 1..Len(sequences) : \A i \in 1..Len(sequences[k].transitions) :
            LET t == sequences[k].transitions[i] IN
            t.score = TransitionTerms(t,
                          /\ has_barre(t.from_fingering.fingering)
                          /\ has_barre(t.to_fingering.fingering))


\* Both fingerings of transition t match the same shape of the ukulele
\* catalog, whatever their base frets.
SameUkuleleShape(t) ==
    LET from == find_matching_shape("ukulele", t.from_fingering.fingering)
        to == find_matching_shape("ukulele", t.to_fingering.fingering)
    IN  from # <<>> /\ to # <<>> /\ from[1] = to[1]

\* C27: on the ukulele, the score of a transition whose two fingerings
\* match the same shape of the catalog holds 50 more than the other terms
\* of the transition score, and the score of any other transition holds
\* nothing more than those terms.
C27_SameShapeBonus ==
    (pc = "done" /\ inst = Ukulele) =>
        \A k \in 1..Len(sequences) : \A i \in 1..Len(sequences[k].transitions) :
            LET t == sequences[k].transitions[i]
                others == TransitionTerms(t,
                              /\ has_barre(t.from_fingering.fingering)
                              /\ has_barre(t.to_fingering.fingering))
            IN  t.score - others = IF SameUkuleleShape(t) THEN 50 ELSE 0

\* A transition between two fingerings of the same ukulele shape was
\* scored.
SameShapeTransitionScored ==
    /\ pc = "done"
    /\ inst = Ukulele
    /\ \E k \in 1..Len(sequences) : \E i \in 1..Len(sequences[k].transitions) :
          SameUkuleleShape(sequences[k].transitions[i])


----------------------------------------------------------------------------
(* SpecShape: a caller matches a fingering against a shape of a catalog.   *)

MaxShapeFret == 5

ShapeModules == {"guitar", "ukulele", "mandolin", "banjo"}

\* Every four-string fingering up to MaxShapeFret, the fingering each
\* shape is documented with, and the fingerings of the shape tests.
ShapeFingerings ==
    {f \in SeqsUpTo({Muted} \cup 0..MaxShapeFret, 4) : Len(f) = 4}
    \cup UNION {Range(documented(m)) : m \in ShapeModules}
    \cup {<<Muted, 2, 4, 4, 3, 2>>, <<Muted, 4, 6, 6, 5, 4>>, <<1, 3, 3, 2, 1, 1>>,
          <<3, 5, 5, 4, 3, 3>>, <<1, 3, 3, 1, 1, 1>>, <<Muted, 2, 4, 4, 4, 2>>,
          <<Muted, 2, 0, 4, 0, 2>>, <<Muted, 5, 4, 3, 3>>, <<4, 2, 2, 4>>}

InitShape ==
    /\ pc = "start"
    /\ given \in {<<f>> : f \in ShapeFingerings}
    /\ outcome = Idle
    /\ inst = Idle /\ chord = Idle /\ opts = Idle
    /\ result1 = <<>> /\ result2 = <<>>
    /\ text = <<>> /\ parsed = NoParse /\ shown = <<>>
    /\ capoFret = 0 /\ capoResult = Idle
    /\ names = <<>> /\ popts = Idle /\ sequences = <<>> /\ generated = <<>>

\* shape.matches(&fingering) for a shape of one of the catalogs.
Match ==
    /\ pc = "start"
    /\ \E m \in ShapeModules : \E k \in 1..Len(ALL_SHAPES(m)) :
          outcome' = [module |-> m, index |-> k,
                      base |-> matches(ALL_SHAPES(m)[k], given[1])]
    /\ pc' = "matched"
    /\ UNCHANGED <<text, parsed, shown, inst, capoFret, capoResult, chord, opts,
                   result1, result2, names, popts, sequences, generated, given>>

NextShape == Match

SpecShape == InitShape /\ [][NextShape]_vars

\* Fingering f is the pattern of shape at base fret b: muted where the
\* pattern is muted, fretted at b plus the offset elsewhere.
FitsAt(shape, f, b) ==
    /\ Len(f) = shape.string_count
    /\ \A i \in 1..Len(f) :
          IF shape.pattern[i] = None THEN f[i] = Muted
          ELSE f[i] = b + shape.pattern[i]

\* C28: matching returns a base fret exactly when the fingering has the
\* string count of the shape and is its pattern at some base fret, and
\* then returns that base fret; every shape of a catalog matches the
\* fingering it is documented with.
C28_MatchesPatternAtBase ==
    pc = "matched" =>
        LET shape == ALL_SHAPES(outcome.module)[outcome.index]
            f == given[1]
        IN  /\ (outcome.base # None) <=> (\E b \in 0..U8Max : FitsAt(shape, f, b))
            /\ outcome.base # None => FitsAt(shape, f, outcome.base)
            /\ f = documented(outcome.module)[outcome.index] => outcome.base # None

\* The same holds of every shape whose pattern has a slot of offset 0.
MatchesWithBaseSlot ==
    (pc = "matched" /\ 0 \in Range(ALL_SHAPES(outcome.module)[outcome.index].pattern)) =>
        C28_MatchesPatternAtBase

\* A shape without a slot of offset 0 never matches.
NoBaseSlotNeverMatches ==
    (pc = "matched" /\ 0 \notin Range(ALL_SHAPES(outcome.module)[outcome.index].pattern)) =>
        outcome.base = None


\* C29: every fret of every fingering that generate_fingerings returns
\* lies within the fret range of the instrument it was called with,
\* whatever options.max_fret is, also when a capo has shortened the range.
C29_FretsWithinRange ==
    pc \in {"once", "twice"} =>
        \A k \in 1..Len(result2) : \A i \in 1..Len(result2[k].fingering) :
            LET fret == result2[k].fingering[i] IN
            fret # Muted => fret_range(inst)[1] <= fret /\ fret <= fret_range(inst)[2]

\* The same bound with options.max_fret in place of the range.
FretsWithinMaxFretOption ==
    pc \in {"once", "twice"} =>
        \A k \in 1..Len(result2) : \A i \in 1..Len(result2[k].fingering) :
            result2[k].fingering[i] <= opts.max_fret


----------------------------------------------------------------------------
(* SpecBuild: a caller builds a fingering value with Fingering::new, with  *)
(* a FingeringBuilder or by parsing a text, formats it and parses the      *)
(* formatted text.  String indices are 1-based here.                       *)

MaxBuildStrings == 3

\* String states handed to new and to the builder: frets on both sides of
\* the two-digit boundary and of the limit of parse.
BuildStates == {Muted, 0, 9, 10, 24, 25}

BuildTexts ==
    {<<"x", "3", "(", "1", "0", ")">>, <<"(", "5", ")">>,
     <<"X", " ", "2", "-", "(", "+", "2", "4", ")">>, <<"0", "(", "2", "5", ")">>}

InitBuild ==
    /\ pc = "start"
    /\ given = <<>> /\ outcome = Idle
    /\ text = <<>> /\ parsed = NoParse /\ shown = <<>>
    /\ inst = Idle /\ capoFret = 0 /\ capoResult = Idle
    /\ chord = Idle /\ opts = Idle /\ result1 = <<>> /\ result2 = <<>>
    /\ names = <<>> /\ popts = Idle /\ sequences = <<>> /\ generated = <<>>

\* Fingering::new(strings)
New ==
    /\ pc = "start"
    /\ \E strings \in SeqsUpTo(BuildStates, MaxBuildStrings) : given' = <<strings>>
    /\ outcome' = "new"
    /\ pc' = "built"
    /\ UNCHANGED <<text, parsed, shown, inst, capoFret, capoResult, chord, opts,
                   result1, result2, names, popts, sequences, generated>>

\* Fingering::parse(text) of a caller's text.
FromText ==
    /\ pc = "start"
    /\ \E t \in BuildTexts :
          /\ text' = t
          /\ IF parse(t).ok
             THEN given' = <<parse(t).strings>> /\ pc' = "built"
             ELSE given' = given /\ pc' = "rejected"
    /\ outcome' = "parse"
    /\ UNCHANGED <<parsed, shown, inst, capoFret, capoResult, chord, opts,
                   result1, result2, names, popts, sequences, generated>>

\* FingeringBuilder::new(string_count)
BuilderNew ==
    /\ pc = "start"
    /\ \E count \in 0..MaxBuildStrings : given' = <<[i \in 1..count |-> Muted]>>
    /\ outcome' = "builder"
    /\ pc' = "building"
    /\ UNCHANGED <<text, parsed, shown, inst, capoFret, capoResult, chord, opts,
                   result1, result2, names, popts, sequences, generated>>

\* FingeringBuilder::fret(string, fret); an index past the end changes
\* nothing.
BuilderFret ==
    /\ pc = "building"
    /\ \E string \in 1..(MaxBuildStrings + 1) : \E fret \in BuildStates \ {Muted} :
          given' = IF string <= Len(given[1])
                   THEN <<[given[1] EXCEPT ![string] = fret]>>
                   ELSE given
    /\ UNCHANGED <<pc, outcome, text, parsed, shown, inst, capoFret, capoResult, chord,
                   opts, result1, result2, names, popts, sequences, generated>>

\* FingeringBuilder::mute(string)
BuilderMute ==
    /\ pc = "building"
    /\ \E string \in 1..(MaxBuildStrings + 1) :
          given' = IF string <= Len(given[1])
                   THEN <<[given[1] EXCEPT ![string] = Muted]>>
                   ELSE given
    /\ UNCHANGED <<pc, outcome, text, parsed, shown, inst, capoFret, capoResult, chord,
                   opts, result1, result2, names, popts, sequences, generated>>

\* FingeringBuilder::build
Build ==
    /\ pc = "building"
    /\ pc' = "built"
    /\ UNCHANGED <<given, outcome, text, parsed, shown, inst, capoFret, capoResult,
                   chord, opts, result1, result2, names, popts, sequences, generated>>

\* fingering.to_string()
Show ==
    /\ pc = "built"
    /\ shown' = display(given[1])
    /\ pc' = "formatted"
    /\ UNCHANGED <<given, outcome, text, parsed, inst, capoFret, capoResult,
                   chord, opts, result1, result2, names, popts, sequences, generated>>

\* Fingering::parse of the formatted text.
Reparse ==
    /\ pc = "formatted"
    /\ parsed' = parse(shown)
    /\ pc' = "reparsed"
    /\ UNCHANGED <<given, outcome, text, shown, inst, capoFret, capoResult,
                   chord, opts, result1, result2, names, popts, sequences, generated>>

NextBuild ==
    New \/ FromText \/ BuilderNew \/ BuilderFret \/ BuilderMute \/ Build
    \/ Show \/ Reparse

SpecBuild == InitBuild /\ [][NextBuild]_vars

\* C30: for every fingering value of at least one string whose frets are
\* all at most 24, however it was built, parsing its formatted text
\* succeeds and yields a fingering equal to it.
C30_ValueRoundTrip ==
    (/\ pc = "reparsed"
     /\ given[1] # <<>>
     /\ \A i \in 1..Len(given[1]) : given[1][i] <= 24) =>
        parsed.ok /\ parsed.strings = given[1]

\* A builder's fingering with a muted string, a one-digit fret and the
\* fret 24 was formatted and parsed back.
C30_Witness ==
    /\ pc = "reparsed"
    /\ outcome = "builder"
    /\ {Muted, 9, 24} \subseteq Range(given[1])
    /\ parsed.ok
    /\ parsed.strings = given[1]

\* Outside the range of C30 the text does not parse: no string at all or
\* a fret above 24.
OutsideRangeRejected ==
    (/\ pc = "reparsed"
     /\ (given[1] = <<>> \/ \E i \in 1..Len(given[1]) : given[1][i] > 24)) =>
        ~parsed.ok

====
